---- MODULE Spec2Model ----
(***************************************************************************)
(* Verification model of the two Apps Script programs of the repository:   *)
(* the conversational writing assistant (src/unnamed/part_000) and the     *)
(* GA4 report generator (src/g4a-automation.js).                           *)
(*                                                                         *)
(* Strings are sequences of one-character strings.  Each routine has its   *)
(* own specification (SpecChunk, SpecAnalyze, ...) and its own variable, a *)
(* record of the routine's arguments, locals and control position; the     *)
(* variables of the other routines stay Idle.                              *)
(***************************************************************************)
EXTENDS Integers, Sequences, FiniteSets, TLC

VARIABLES
  ct,   \* chunkText(text, maxLength): its arguments, locals and position
  aic,  \* analyzeForHighlighting / analyzeInChunks: locals and position
  chg,  \* calculatePeriodChanges: arguments, the row mapped last, position
  pine, \* the vector index, syncDriveFolderToPinecone, retrieveFromPinecone
  rep,  \* runFocusedReport: configuration, mails sent, position
  post, \* doPost / processMessage: the request, the calls made, the response
  gc,   \* gatherContext: the query, the lookups made, the context
  ext,  \* extractDocumentId: the argument and the value returned
  chat, \* processChatMessage / detectUserIntent: message, intent, result
  chart, \* generatePieChart / generateBarChart: the data and the markup
  awc,  \* handleAnalyzeWithComments: analysis, comments added, result
  sa,   \* setupAutomation: the project's triggers, the script properties
  per   \* getFocusedGA4Data: the clock, the time zone, the two periods

vars == <<ct, aic, chg, pine, rep, post, gc, ext, chat, chart, awc, sa, per>>

\* what each routine leaves alone
exceptCt == <<aic, chg, pine, rep, post, gc, ext, chat, chart, awc, sa, per>>
exceptAic == <<ct, chg, pine, rep, post, gc, ext, chat, chart, awc, sa, per>>
exceptChg == <<ct, aic, pine, rep, post, gc, ext, chat, chart, awc, sa, per>>
exceptPine == <<ct, aic, chg, rep, post, gc, ext, chat, chart, awc, sa, per>>
exceptRep == <<ct, aic, chg, pine, post, gc, ext, chat, chart, awc, sa, per>>
exceptPost == <<ct, aic, chg, pine, rep, gc, ext, chat, chart, awc, sa, per>>
exceptGc == <<ct, aic, chg, pine, rep, post, ext, chat, chart, awc, sa, per>>
exceptExt == <<ct, aic, chg, pine, rep, post, gc, chat, chart, awc, sa, per>>
exceptChat == <<ct, aic, chg, pine, rep, post, gc, ext, chart, awc, sa, per>>
exceptChart == <<ct, aic, chg, pine, rep, post, gc, ext, chat, awc, sa, per>>
exceptAwc == <<ct, aic, chg, pine, rep, post, gc, ext, chat, chart, sa, per>>
exceptSa == <<ct, aic, chg, pine, rep, post, gc, ext, chat, chart, awc, per>>
exceptPer == <<ct, aic, chg, pine, rep, post, gc, ext, chat, chart, awc, sa>>

\* a routine that is not running
Idle == [pc |-> "idle"]

(***************************************************************************)
(* Bounds of the model.                                                    *)
(***************************************************************************)
MaxTextLen == 7
MaxChunkLen == 3
MaxIssues == 2
MaxCurrentRows == 2
MaxPreviousRows == 1
MaxFiles == 2
MaxDocChunks == 2
MaxRecipients == 2
MaxPieces == 3
MaxMatches == 2
MaxIntentPieces == 2
MaxChartItems == 2
MaxAnalysisIssues == 2
MaxSetupCalls == 3
MaxReportDays == 3

(***************************************************************************)
(* String helpers (JavaScript String semantics on character sequences).    *)
(***************************************************************************)
NL == "\n"
Chars == {"a", "b", " ", NL}
Whitespace == {" ", NL}

Strings(n) == UNION {[1..k -> Chars] : k \in 0..n}

RECURSIVE TrimStart(_)
TrimStart(s) ==
  IF s = <<>> THEN <<>>
  ELSE IF Head(s) \in Whitespace THEN TrimStart(Tail(s)) ELSE s

RECURSIVE TrimEnd(_)
TrimEnd(s) ==
  IF s = <<>> THEN <<>>
  ELSE IF s[Len(s)] \in Whitespace THEN TrimEnd(SubSeq(s, 1, Len(s) - 1)) ELSE s

\* String.prototype.trim
Trim(s) == TrimEnd(TrimStart(s))

\* text.split('\n\n'): leftmost, non-overlapping separators; always at least
\* one piece.
RECURSIVE SplitFrom(_, _, _)
SplitFrom(s, i, start) ==
  IF i > Len(s) THEN <<SubSeq(s, start, Len(s))>>
  ELSE IF i < Len(s) /\ s[i] = NL /\ s[i + 1] = NL
       THEN <<SubSeq(s, start, i - 1)>> \o SplitFrom(s, i + 2, i + 2)
       ELSE SplitFrom(s, i + 1, start)

SplitParagraphs(s) == SplitFrom(s, 1, 1)

Separator == <<NL, NL>>

(***************************************************************************)
(* chunkText (part_000 lines 785-804), one forEach iteration per step.     *)
(***************************************************************************)
\* line 791: (currentChunk + para).length > maxLength && currentChunk
Overflows(chunk, para, maxLength) ==
  Len(chunk \o para) > maxLength /\ chunk # <<>>

\* a chunker that loses the paragraph that did not fit
RestartEmpty(para) == <<>>

\* line 793: currentChunk = para
Restart(para) == para

\* line 795: currentChunk += (currentChunk ? '\n\n' : '') + para
AppendPara(chunk, para) ==
  chunk \o (IF chunk # <<>> THEN Separator ELSE <<>>) \o para

ChunkInit ==
  /\ \E text \in Strings(MaxTextLen), maxLength \in 1..MaxChunkLen :
       ct = [text |-> text, maxLength |-> maxLength,
             paragraphs |-> SplitParagraphs(text), idx |-> 1,
             currentChunk |-> <<>>, chunks |-> <<>>, pc |-> "loop"]
  /\ aic = Idle
  /\ chg = Idle
  /\ pine = Idle
  /\ rep = Idle
  /\ post = Idle
  /\ gc = Idle
  /\ ext = Idle
  /\ chat = Idle
  /\ chart = Idle
  /\ awc = Idle
  /\ sa = Idle
  /\ per = Idle

\* lines 790-797: one iteration of paragraphs.forEach
ChunkStep ==
  /\ ct.pc = "loop"
  /\ ct.idx <= Len(ct.paragraphs)
  /\ LET para == ct.paragraphs[ct.idx] IN
       IF Overflows(ct.currentChunk, para, ct.maxLength)
       THEN ct' = [ct EXCEPT !.chunks = @ \o <<Trim(ct.currentChunk)>>,
                             !.currentChunk = Restart(para),
                             !.idx = @ + 1]
       ELSE ct' = [ct EXCEPT !.currentChunk = AppendPara(@, para),
                             !.idx = @ + 1]
  /\ UNCHANGED exceptCt

\* lines 799-803: the trailing chunk and the return
ChunkFinish ==
  /\ ct.pc = "loop"
  /\ ct.idx > Len(ct.paragraphs)
  /\ ct' = [ct EXCEPT !.chunks = (IF ct.currentChunk # <<>>
                                  THEN @ \o <<Trim(ct.currentChunk)>>
                                  ELSE @),
                      !.pc = "done"]
  /\ UNCHANGED exceptCt

ChunkNext == ChunkStep \/ ChunkFinish

SpecChunk == ChunkInit /\ [][ChunkNext]_vars

(***************************************************************************)
(* Claims about chunkText.                                                 *)
(***************************************************************************)
\* C3: every chunk returned by chunkText(text, maxLength) has length at most
\* maxLength, also for a single paragraph longer than maxLength and for
\* chunks joined from several paragraphs.
C3_ChunksWithinMaxLength ==
  ct.pc = "done" =>
    \A k \in 1..Len(ct.chunks) : Len(ct.chunks[k]) <= ct.maxLength

\* The text is the chunks in order, with only whitespace between them, before
\* the first and after the last.
RECURSIVE Tiles(_, _)
Tiles(rest, cs) ==
  LET r == TrimStart(rest) IN
    IF cs = <<>> THEN r = <<>>
    ELSE LET c == Head(cs) IN
           /\ Len(c) <= Len(r)
           /\ SubSeq(r, 1, Len(c)) = c
           /\ Tiles(SubSeq(r, Len(c) + 1, Len(r)), Tail(cs))

RECURSIVE ParagraphsOfChunks(_)
ParagraphsOfChunks(cs) ==
  IF cs = <<>> THEN <<>>
  ELSE SplitParagraphs(Head(cs)) \o ParagraphsOfChunks(Tail(cs))

\* the paragraphs that hold something besides whitespace, trimmed
RECURSIVE NonBlank(_)
NonBlank(paras) ==
  IF paras = <<>> THEN <<>>
  ELSE (IF Trim(Head(paras)) = <<>> THEN <<>> ELSE <<Trim(Head(paras))>>)
       \o NonBlank(Tail(paras))

\* C4: chunkText preserves total content: the paragraphs of the text are the
\* paragraphs of the chunks, each once and in the original order, and the
\* chunks tile the text up to whitespace at chunk boundaries.
C4_ContentPreserved ==
  ct.pc = "done" =>
    /\ Tiles(ct.text, ct.chunks)
    /\ NonBlank(ParagraphsOfChunks(ct.chunks)) = NonBlank(SplitParagraphs(ct.text))

\* a run with three paragraphs that returns two chunks, one of them joined
\* from two paragraphs
C4_Witness ==
  /\ ct.pc = "done"
  /\ Len(NonBlank(SplitParagraphs(ct.text))) >= 3
  /\ Len(ct.chunks) >= 2
  /\ \E k \in 1..Len(ct.chunks) : Len(SplitParagraphs(ct.chunks[k])) >= 2

(***************************************************************************)
(* analyzeForHighlighting (part_000 lines 1044-1125) and analyzeInChunks   *)
(* (lines 1131-1209).  The document text is its length: the only use of    *)
(* the text is text.substring(i, min(i + chunkSize, length)), so a chunk   *)
(* is the half-open range [start, end) of character positions.  The        *)
(* language model is the environment: each call fails or returns a         *)
(* response of one of the shapes the code distinguishes.                   *)
(***************************************************************************)
chunkSize == 10000
Overlap == 500
LongDocThreshold == 15000
SleepMs == 1000

\* document lengths: the routing threshold, two-chunk texts, the lengths
\* around the start of a third chunk, a full third chunk and a fourth chunk
\* of one character
DocLengths == {15000, 15001, 19000, 19001, 19250, 19500, 24000, 28500, 28501}

\* a window that leaves a gap between chunks
StrideGap == chunkSize + Overlap

\* line 1137: i += chunkSize - 500
Stride == chunkSize - Overlap

Min(a, b) == IF a < b THEN a ELSE b

\* an issue object without a usable text field
NoText == <<"?">>
IssueTexts == {<<"x">>, <<" ", "x">>, <<"y">>}

IssueLists == UNION {[1..n -> IssueTexts \cup {NoText}] : n \in 0..MaxIssues}

\* what a call of callGemini leads to in the caller:
\*   fail     callGemini throws (lines 689-718)
\*   nomatch  the text holds no {...} (line 1177 gives null)
\*   badjson  JSON.parse throws (line 1180)
\*   noissues the parsed object has no issues array (line 1182 throws)
\*   ok       the parsed object has an issues array
Responses ==
  {[kind |-> k, issues |-> <<>>] : k \in {"fail", "nomatch", "badjson", "noissues"}}
  \cup {[kind |-> "ok", issues |-> l] : l \in IssueLists}

\* the issues the forEach of line 1182 visits: it stops at an issue whose
\* text is undefined, where issue.text.trim() throws
RECURSIVE Visited(_)
Visited(issues) ==
  IF issues = <<>> \/ Head(issues) = NoText THEN <<>>
  ELSE <<Head(issues)>> \o Visited(Tail(issues))

Throws(resp) ==
  \/ resp.kind \in {"fail", "badjson", "noissues"}
  \/ resp.kind = "ok" /\ Len(Visited(resp.issues)) < Len(resp.issues)

\* a merge that forgets to record the key
MarkSeenNot(seen, key) == seen

\* line 1185: seenTexts.add(textKey)
MarkSeen(seen, key) == seen \cup {key}

\* line 1183: const textKey = issue.text.trim()
TextKey(text) == Trim(text)

\* lines 1182-1188 over the visited issues of chunk k, from position n
RECURSIVE MergeIssues(_, _, _, _, _)
MergeIssues(texts, k, n, seen, all) ==
  IF texts = <<>> THEN [seen |-> seen, all |-> all]
  ELSE LET key == TextKey(Head(texts)) IN
         IF key \notin seen
         THEN MergeIssues(Tail(texts), k, n + 1, MarkSeen(seen, key),
                          Append(all, [text |-> Head(texts), chunk |-> k, pos |-> n]))
         ELSE MergeIssues(Tail(texts), k, n + 1, seen, all)

\* history: where each trimmed text was first visited
RECURSIVE RecordFirst(_, _, _, _)
RecordFirst(texts, k, n, first) ==
  IF texts = <<>> THEN first
  ELSE RecordFirst(Tail(texts), k, n + 1,
         IF Trim(Head(texts)) \in DOMAIN first THEN first
         ELSE first @@ (Trim(Head(texts)) :> <<k, n>>))

CallEvent(k) == [type |-> "call", chunk |-> k]
SleepEvent == [type |-> "sleep", chunk |-> SleepMs]

AnalyzeInit ==
  /\ \E n \in DocLengths :
       aic = [docLen |-> n, i |-> 0, chunks |-> <<>>, chunkIndex |-> 0,
              allIssues |-> <<>>, seenTexts |-> {}, events |-> <<>>,
              firstSeen |-> <<>>, nVisited |-> 0, outcomes |-> <<>>,
              succeeded |-> {}, pc |-> "route"]
  /\ ct = Idle
  /\ chg = Idle
  /\ pine = Idle
  /\ rep = Idle
  /\ post = Idle
  /\ gc = Idle
  /\ ext = Idle
  /\ chat = Idle
  /\ chart = Idle
  /\ awc = Idle
  /\ sa = Idle
  /\ per = Idle

\* lines 1080-1090: long documents go to analyzeInChunks
AnalyzeRoute ==
  /\ aic.pc = "route"
  /\ aic' = [aic EXCEPT !.pc = IF aic.docLen > LongDocThreshold
                               THEN "split" ELSE "single"]
  /\ UNCHANGED exceptAic

\* lines 1092-1124: one call for the whole text; a failed call, a parsed
\* object without an issues array (line 1119) and an issue without text
\* (line 1121) leave by exception
SingleAnalyze ==
  /\ aic.pc = "single"
  /\ \E resp \in Responses :
       IF resp.kind \in {"fail", "noissues"} \/ (resp.kind = "ok" /\ Throws(resp))
       THEN aic' = [aic EXCEPT !.events = Append(@, CallEvent(0)),
                               !.pc = "threw"]
       ELSE aic' = [aic EXCEPT !.events = Append(@, CallEvent(0)),
                               !.allIssues =
                                 IF resp.kind = "ok"
                                 THEN [n \in 1..Len(resp.issues) |->
                                         [text |-> resp.issues[n], chunk |-> 0, pos |-> n]]
                                 ELSE <<>>,
                               !.pc = "doneSingle"]
  /\ UNCHANGED exceptAic

\* lines 1137-1139: one iteration of the splitting loop
SplitStep ==
  /\ aic.pc = "split"
  /\ aic.i < aic.docLen
  /\ aic' = [aic EXCEPT !.chunks = Append(@, [start |-> aic.i,
                                              end |-> Min(aic.i + chunkSize, aic.docLen)]),
                        !.i = @ + Stride]
  /\ UNCHANGED exceptAic

\* line 1137: the loop condition fails; lines 1141-1144
SplitDone ==
  /\ aic.pc = "split"
  /\ ~(aic.i < aic.docLen)
  /\ aic' = [aic EXCEPT !.pc = "analyze", !.chunkIndex = 1]
  /\ UNCHANGED exceptAic

\* how the iteration for a response ends: "failed" when callGemini or the
\* parsing throws, "empty" when the text holds no object, "partial" when the
\* merge throws at an issue without text, "ok" otherwise
ChunkOutcome(resp) ==
  IF resp.kind \in {"fail", "badjson", "noissues"} THEN "failed"
  ELSE IF resp.kind = "nomatch" THEN "empty"
  ELSE IF Throws(resp) THEN "partial"
  ELSE "ok"

\* the trimmed texts of the issues of a response that was merged to its end
SucceededKeys(resp) ==
  IF ChunkOutcome(resp) = "ok"
  THEN {Trim(resp.issues[j]) : j \in 1..Len(resp.issues)}
  ELSE {}

\* a loop that gives up at the first chunk that throws
NextIndexAbort(chunkIndex, total, resp) ==
  IF Throws(resp) THEN total + 1 ELSE chunkIndex + 1

\* line 1146: forEach goes on to the next chunk, whatever happened (the
\* catch of lines 1193-1195 is inside the callback)
NextIndex(chunkIndex, total, resp) == chunkIndex + 1

\* lines 1146-1196: one iteration of chunks.forEach: the call, the merge of
\* its issues, and the pause, which the try block reaches only without an
\* exception
AnalyzeChunk ==
  /\ aic.pc = "analyze"
  /\ aic.chunkIndex <= Len(aic.chunks)
  /\ \E resp \in Responses :
       LET visited == IF resp.kind = "ok" THEN Visited(resp.issues) ELSE <<>>
           merged == MergeIssues(visited, aic.chunkIndex, 1, aic.seenTexts, aic.allIssues)
       IN aic' = [aic EXCEPT
                    !.seenTexts = merged.seen,
                    !.allIssues = merged.all,
                    !.firstSeen = RecordFirst(visited, aic.chunkIndex, 1, @),
                    !.nVisited = @ + Len(visited),
                    !.events = @ \o <<CallEvent(aic.chunkIndex)>>
                                 \o (IF Throws(resp) THEN <<>> ELSE <<SleepEvent>>),
                    !.outcomes = @ \o <<ChunkOutcome(resp)>>,
                    !.succeeded = @ \cup SucceededKeys(resp),
                    !.chunkIndex = NextIndex(@, Len(aic.chunks), resp)]
  /\ UNCHANGED exceptAic

\* lines 1198-1208: the combined result
AnalyzeFinish ==
  /\ aic.pc = "analyze"
  /\ aic.chunkIndex > Len(aic.chunks)
  /\ aic' = [aic EXCEPT !.pc = "done"]
  /\ UNCHANGED exceptAic

AnalyzeNext ==
  \/ AnalyzeRoute
  \/ SingleAnalyze
  \/ SplitStep
  \/ SplitDone
  \/ AnalyzeChunk
  \/ AnalyzeFinish

SpecAnalyze == AnalyzeInit /\ [][AnalyzeNext]_vars

\* execution is synchronous: a step that can run does run
SpecAnalyzeFair == SpecAnalyze /\ WF_vars(AnalyzeNext)

(***************************************************************************)
(* Claims about analyzeInChunks.                                           *)
(***************************************************************************)
InChunkedRun == aic.pc \in {"analyze", "done"}

\* C7: the combined result never reports the same issue twice: no two kept
\* issues have the same matched text (not even up to surrounding
\* whitespace), every visited text is kept once, and the kept report of a
\* text is the first one visited, in chunk order.
C7_NoDuplicateIssues ==
  InChunkedRun =>
    /\ \A i, j \in 1..Len(aic.allIssues) :
         i # j => /\ aic.allIssues[i].text # aic.allIssues[j].text
                  /\ Trim(aic.allIssues[i].text) # Trim(aic.allIssues[j].text)
    /\ \A i \in 1..Len(aic.allIssues) :
         /\ Trim(aic.allIssues[i].text) \in DOMAIN aic.firstSeen
         /\ aic.firstSeen[Trim(aic.allIssues[i].text)]
              = <<aic.allIssues[i].chunk, aic.allIssues[i].pos>>
    /\ \A key \in DOMAIN aic.firstSeen :
         \E i \in 1..Len(aic.allIssues) : Trim(aic.allIssues[i].text) = key

\* a finished run in which several reports of one text were merged and two
\* different texts were kept
C7_Witness ==
  /\ aic.pc = "done"
  /\ Len(aic.allIssues) = 2
  /\ aic.nVisited >= 4
  /\ \E i \in 1..Len(aic.allIssues) : aic.allIssues[i].chunk >= 2

\* the chunks are non-empty ranges of at most chunkSize characters, taken in
\* document order, and every character position lies in one of them
ChunksCoverText ==
  /\ \A k \in 1..Len(aic.chunks) :
       /\ 0 <= aic.chunks[k].start
       /\ aic.chunks[k].start < aic.chunks[k].end
       /\ aic.chunks[k].end <= aic.docLen
       /\ aic.chunks[k].end - aic.chunks[k].start <= chunkSize
  /\ \A k \in 1..(Len(aic.chunks) - 1) :
       aic.chunks[k].start < aic.chunks[k + 1].start
  /\ \A p \in 0..(aic.docLen - 1) :
       \E k \in 1..Len(aic.chunks) : aic.chunks[k].start <= p /\ p < aic.chunks[k].end

\* C8: for every text routed to chunked analysis (length > 15000) the
\* splitting loop terminates, and when it has ended the chunks have at most
\* 10000 characters each, are contiguous substrings in document order and
\* cover every character position; the chunk list is not changed afterwards.
C8_ChunkingTerminatesAndCovers ==
  /\ [](aic.pc = "split" => aic.docLen > LongDocThreshold)
  /\ [](aic.pc = "analyze" /\ aic.chunkIndex = 1 => ChunksCoverText)
  /\ [][aic.pc # "split" => aic.chunks' = aic.chunks]_vars
  /\ (aic.pc = "split" ~> aic.pc = "analyze")

\* the loop has ended on a text of three chunks
C8_Witness ==
  /\ aic.pc = "analyze"
  /\ aic.chunkIndex = 1
  /\ aic.docLen > LongDocThreshold
  /\ Len(aic.chunks) = 3

\* the characters two ranges share
Shared(c, d) ==
  LET lo == IF c.start > d.start THEN c.start ELSE d.start
      hi == Min(c.end, d.end)
  IN IF hi > lo THEN hi - lo ELSE 0

\* C9: every two consecutive chunks share exactly 500 characters, the last
\* 500 of the earlier one being the first 500 of the later one, for every
\* text length.
C9_FixedOverlap ==
  InChunkedRun =>
    \A k \in 1..(Len(aic.chunks) - 1) :
      /\ Shared(aic.chunks[k], aic.chunks[k + 1]) = Overlap
      /\ aic.chunks[k].end - Overlap = aic.chunks[k + 1].start

CallPositions == {p \in 1..Len(aic.events) : aic.events[p].type = "call"}

\* C10: the calls are issued one at a time in chunk order, and between every
\* two consecutive calls there is exactly one pause of 1000 ms, whether the
\* earlier call succeeded, returned unparsable text or failed.
C10_PauseBetweenCalls ==
  InChunkedRun =>
    \A p, q \in CallPositions :
      (p < q /\ \A r \in (p + 1)..(q - 1) : r \notin CallPositions) =>
        /\ aic.events[q].chunk = aic.events[p].chunk + 1
        /\ q = p + 2
        /\ aic.events[p + 1] = SleepEvent

\* the calls made so far
CallsMade == SelectSeq(aic.events, LAMBDA ev : ev.type = "call")

\* C15: every chunk is sent to the language model once, in order, with no
\* retry; a chunk whose call or parsing failed adds no issue, the chunks
\* after it are still analysed, and the run always ends with a result that
\* holds (by matched text) the issues of every chunk that succeeded.
C15_NoRetryAllChunks ==
  /\ [](InChunkedRun =>
         /\ CallsMade = [k \in 1..(aic.chunkIndex - 1) |-> CallEvent(k)]
         /\ Len(aic.outcomes) = aic.chunkIndex - 1
         /\ \A n \in 1..Len(aic.allIssues) :
              aic.outcomes[aic.allIssues[n].chunk] \notin {"failed", "empty"}
         /\ aic.pc = "done" =>
              /\ Len(CallsMade) = Len(aic.chunks)
              /\ \A key \in aic.succeeded :
                   \E n \in 1..Len(aic.allIssues) : Trim(aic.allIssues[n].text) = key)
  /\ (aic.pc = "analyze" ~> aic.pc = "done")

\* a finished run whose first chunk failed and whose result holds an issue
\* of a later chunk
C15_Witness ==
  /\ aic.pc = "done"
  /\ aic.outcomes[1] = "failed"
  /\ \E n \in 1..Len(aic.allIssues) : aic.allIssues[n].chunk >= 2

(***************************************************************************)
(* calculatePeriodChanges (g4a-automation.js lines 620-646) with           *)
(* enrichMetrics (lines 609-615).  Metric values are numbers (lines        *)
(* 588-596 turn every metric into a number, NaN into 0).  Numbers are      *)
(* exact fractions [n, d] with d > 0: the rounding of JavaScript doubles   *)
(* is not modelled.                                                        *)
(***************************************************************************)
Q(n, d) == [n |-> n, d |-> d]
Whole(n) == Q(n, 1)
RSub(a, b) == Q(a.n * b.d - b.n * a.d, a.d * b.d)
RMul(a, b) == Q(a.n * b.n, a.d * b.d)
\* a / b for b > 0
RDiv(a, b) == Q(a.n * b.d, a.d * b.n)
REq(a, b) == a.n * b.d = b.n * a.d

\* a change that reports no growth from a zero baseline
calculateChangeFlat(curr, prev) ==
  IF prev.n = 0 THEN Whole(0)
  ELSE RMul(RDiv(RSub(curr, prev), prev), Whole(100))

\* lines 625-628: the inner calculateChange
calculateChange(curr, prev) ==
  IF prev.n = 0 THEN (IF curr.n > 0 THEN Whole(100) ELSE Whole(0))
  ELSE RMul(RDiv(RSub(curr, prev), prev), Whole(100))

\* the metrics compared field by field (lines 633-636, 642-643)
PlainMetrics == {"sessions", "newUsers", "totalUsers", "averageSessionDuration",
                 "eventsPerSession", "bounceRate"}

Channels == {"Direct", "Organic Search"}
MetricValues == {0, 1, 3}
Rotate(v) == CHOOSE w \in MetricValues :
               \/ v = 0 /\ w = 1
               \/ v = 1 /\ w = 3
               \/ v = 3 /\ w = 0

\* report rows as parseGA4Response builds them: every metric takes every
\* value as the sessions s and the engagement duration d vary
Row(ch, s, d) ==
  [sessionDefaultChannelGrouping |-> ch,
   sessions |-> s,
   userEngagementDuration |-> d,
   newUsers |-> s,
   totalUsers |-> s,
   averageSessionDuration |-> d,
   eventsPerSession |-> Rotate(d),
   bounceRate |-> Rotate(s)]

Rows == {Row(ch, s, d) : ch \in Channels, s \in MetricValues, d \in MetricValues}

\* the empty object of line 623
NoRow == [sessionDefaultChannelGrouping |-> "undefined"]

\* x || 0 on a field that may be missing
OrZero(row, f) == IF f \in DOMAIN row THEN row[f] ELSE 0
\* x || 1
OrOne(row, f) == IF f \in DOMAIN row /\ row[f] # 0 THEN row[f] ELSE 1

\* line 623: previous.find(p => p.sessionDefaultChannelGrouping === channelName) || {}
RECURSIVE FindPrevious(_, _)
FindPrevious(previous, channelName) ==
  IF previous = <<>> THEN NoRow
  ELSE IF Head(previous).sessionDefaultChannelGrouping = channelName
       THEN Head(previous)
       ELSE FindPrevious(Tail(previous), channelName)

\* lines 609-615: enrichMetrics on one row
enrichMetrics(row) ==
  [returningUsers |-> OrZero(row, "totalUsers") - OrZero(row, "newUsers"),
   avgEngagementPerSession |->
     IF row.sessions > 0
     THEN Q(OrZero(row, "userEngagementDuration"), row.sessions)
     ELSE Whole(0)]

\* lines 632-644: the changes object
Changes(currentRow, previousRow) ==
  [m \in PlainMetrics \cup {"avgEngagementPerSession"} |->
     IF m = "avgEngagementPerSession"
     THEN calculateChange(
            Q(OrZero(currentRow, "userEngagementDuration"), OrOne(currentRow, "sessions")),
            Q(OrZero(previousRow, "userEngagementDuration"), OrOne(previousRow, "sessions")))
     ELSE calculateChange(Whole(OrZero(currentRow, m)), Whole(OrZero(previousRow, m)))]

PreviousLists == UNION {[1..n -> Rows] : n \in 0..MaxPreviousRows}

ChangesInit ==
  /\ \E previous \in PreviousLists :
       chg = [previous |-> previous, n |-> 0, row |-> NoRow, found |-> NoRow,
              enriched |-> <<>>, changes |-> <<>>, pc |-> "map"]
  /\ ct = Idle
  /\ aic = Idle
  /\ pine = Idle
  /\ rep = Idle
  /\ post = Idle
  /\ gc = Idle
  /\ ext = Idle
  /\ chat = Idle
  /\ chart = Idle
  /\ awc = Idle
  /\ sa = Idle
  /\ per = Idle

\* lines 621-645: the callback of current.map on one row of the current
\* period
ChangesMapRow ==
  /\ chg.pc = "map"
  /\ chg.n < MaxCurrentRows
  /\ \E currentRow \in Rows :
       LET previousRow == FindPrevious(chg.previous,
                                       currentRow.sessionDefaultChannelGrouping)
       IN chg' = [chg EXCEPT !.n = @ + 1,
                             !.row = currentRow,
                             !.found = previousRow,
                             !.enriched = enrichMetrics(currentRow),
                             !.changes = Changes(currentRow, previousRow)]
  /\ UNCHANGED exceptChg

\* line 621: map returns
ChangesReturn ==
  /\ chg.pc = "map"
  /\ chg' = [chg EXCEPT !.pc = "done"]
  /\ UNCHANGED exceptChg

ChangesNext == ChangesMapRow \/ ChangesReturn

SpecChanges == ChangesInit /\ [][ChangesNext]_vars

(***************************************************************************)
(* Claims about calculatePeriodChanges.                                    *)
(***************************************************************************)
\* the rows of the previous period for the channel of the row mapped last
PreviousOfChannel ==
  {k \in 1..Len(chg.previous) :
     chg.previous[k].sessionDefaultChannelGrouping
       = chg.row.sessionDefaultChannelGrouping}

\* the previous-period value of a metric: 0 when the channel has no row
PreviousValue(m) ==
  IF PreviousOfChannel = {} THEN 0
  ELSE chg.previous[CHOOSE k \in PreviousOfChannel :
                      \A j \in PreviousOfChannel : k <= j][m]

\* the compared values of the derived metric: engagement duration per
\* session, a period without sessions counting as one session
PerSession(dur, sessions) == Q(dur, IF sessions = 0 THEN 1 ELSE sessions)

ChangeIsAsClaimed(change, curr, prev) ==
  /\ (prev.n = 0 /\ curr.n > 0) => REq(change, Whole(100))
  /\ (prev.n = 0 /\ curr.n = 0) => REq(change, Whole(0))
  /\ prev.n # 0 => REq(RMul(change, prev), RMul(RSub(curr, prev), Whole(100)))

\* C5: for every metric of every current-period channel the change is 100
\* (current > 0) or 0 (current = 0) when the previous value is 0, also when
\* the channel has no previous row, and (current - previous) / previous * 100
\* otherwise.
C5_PeriodChange ==
  (chg.pc \in {"map", "done"} /\ chg.n > 0) =>
    /\ \A m \in PlainMetrics :
         ChangeIsAsClaimed(chg.changes[m], Whole(chg.row[m]), Whole(PreviousValue(m)))
    /\ ChangeIsAsClaimed(chg.changes["avgEngagementPerSession"],
         PerSession(chg.row.userEngagementDuration, chg.row.sessions),
         PerSession(PreviousValue("userEngagementDuration"), PreviousValue("sessions")))

\* a mapped row whose channel has a previous row, with one metric grown from
\* zero and another changed from a non-zero value
C5_Witness ==
  /\ chg.n > 0
  /\ PreviousOfChannel # {}
  /\ \E m \in PlainMetrics : PreviousValue(m) = 0 /\ chg.row[m] > 0
  /\ \E m \in PlainMetrics : PreviousValue(m) # 0 /\ chg.row[m] # PreviousValue(m)

(***************************************************************************)
(* The vector index: syncDriveFolderToPinecone (part_000 lines 735-759),   *)
(* uploadDocumentToPinecone (761-783), upsertToPinecone (806-846),         *)
(* retrieveFromPinecone (593-602) and queryPinecone (604-651).  The index  *)
(* is a set of vectors, each in one namespace; a request that names no     *)
(* namespace addresses the default namespace "".                           *)
(***************************************************************************)
\* line 749: uploadDocumentToPinecone(file.getId(), 'writing-rules')
UploadNamespace == "writing-rules"
\* lines 614-618: the query payload has no namespace field
QueryNamespace == ""

FileKinds == {"doc", "other"}
FileLists == UNION {[1..n -> FileKinds] : n \in 0..MaxFiles}

\* a vector some other upload left in the default namespace
OldVector == [namespace |-> "", doc |-> 0, chunkIndex |-> 0]

\* lines 770-780: the vectors of chunks 0..k-1 of document d, all upserted
\* with the namespace argument
Upserted(d, k, namespace) ==
  {[namespace |-> namespace, doc |-> d, chunkIndex |-> j] : j \in 0..(k - 1)}

\* lines 604-651: what a query can match
Queryable(store) == {v \in store : v.namespace = QueryNamespace}

PineInit ==
  /\ \E files \in FileLists, configured \in BOOLEAN, old \in SUBSET {OldVector} :
       pine = [RULES_FOLDER_ID |-> configured, files |-> files, idx |-> 1,
               store |-> old, count |-> 0, matches |-> {}, pc |-> "sync"]
  /\ ct = Idle
  /\ aic = Idle
  /\ chg = Idle
  /\ rep = Idle
  /\ post = Idle
  /\ gc = Idle
  /\ ext = Idle
  /\ chat = Idle
  /\ chart = Idle
  /\ awc = Idle
  /\ sa = Idle
  /\ per = Idle

\* lines 736-739
SyncNotConfigured ==
  /\ pine.pc = "sync"
  /\ ~pine.RULES_FOLDER_ID
  /\ pine' = [pine EXCEPT !.pc = "synced"]
  /\ UNCHANGED exceptPine

\* lines 745-756: one file of the folder.  A document is read (a failure
\* throws, line 765), chunked into n chunks and upserted chunk by chunk; the
\* embedding or the upsert of chunk k may throw (lines 590, 838), which
\* leaves the chunks before k stored and skips count++.
SyncFile ==
  /\ pine.pc = "sync"
  /\ pine.RULES_FOLDER_ID
  /\ pine.idx <= Len(pine.files)
  /\ IF pine.files[pine.idx] # "doc"
     THEN pine' = [pine EXCEPT !.idx = @ + 1]
     ELSE \E readOk \in BOOLEAN, n \in 0..MaxDocChunks, stored \in 0..MaxDocChunks :
            /\ stored <= n
            /\ pine' = [pine EXCEPT
                          !.idx = @ + 1,
                          !.store = IF readOk
                                    THEN @ \cup Upserted(pine.idx, stored, UploadNamespace)
                                    ELSE @,
                          !.count = IF readOk /\ stored = n THEN @ + 1 ELSE @]
  /\ UNCHANGED exceptPine

\* line 758: the folder is exhausted
SyncDone ==
  /\ pine.pc = "sync"
  /\ pine.RULES_FOLDER_ID
  /\ pine.idx > Len(pine.files)
  /\ pine' = [pine EXCEPT !.pc = "synced"]
  /\ UNCHANGED exceptPine

\* lines 593-602 and 604-651: a retrieval after the sync; a failed embedding
\* or a non-200 answer gives no matches, otherwise the index answers with
\* vectors of the queried namespace
Retrieve ==
  /\ pine.pc = "synced"
  /\ \E ok \in BOOLEAN, matches \in SUBSET Queryable(pine.store) :
       pine' = [pine EXCEPT !.matches = IF ok THEN matches ELSE {},
                            !.pc = "retrieved"]
  /\ UNCHANGED exceptPine

PineNext == SyncNotConfigured \/ SyncFile \/ SyncDone \/ Retrieve

SpecPinecone == PineInit /\ [][PineNext]_vars

(***************************************************************************)
(* Claims about the vector index.                                          *)
(***************************************************************************)
UploadedBySync == {v \in pine.store : v.doc # 0}

\* C6: the rule chunks stored by the sync are in the namespace that the
\* retrieval queries, so a retrieval after a successful sync can return them.
C6_SameNamespace ==
  pine.pc \in {"sync", "synced", "retrieved"} =>
    \A v \in UploadedBySync : v \in Queryable(pine.store)

(***************************************************************************)
(* The markup of generatePieChart (g4a-automation.js lines 653-711) and    *)
(* generateBarChart (716-741), used by the report and by the charts.       *)
(***************************************************************************)
Open(tag) == [k |-> "open", v |-> tag]
Close(tag) == [k |-> "close", v |-> tag]
Void(tag) == [k |-> "void", v |-> tag]
Text(t) == [k |-> "text", v |-> t]

Arr(v) == [t |-> "array", v |-> v]

\* lines 654 and 717: !data || data.length === 0
NoData(data) == data.t \in {"null", "undefined"} \/ Len(data.v) = 0

\* a placeholder whose element is left open
PlaceholderUnclosed(title) ==
  <<Open("div"), Text("No "), Text(title), Text(" data available")>>

\* lines 655 and 718
Placeholder(title) ==
  <<Open("div"), Text("No "), Text(title), Text(" data available"), Close("div")>>

\* lines 689-691: one path of the pie
PieSegment == <<Void("path")>>

\* lines 693-698: one legend entry of the pie
PieLegend ==
  <<Open("div"), Open("div"), Close("div"), Open("span"), Text("label: value (percent%)"),
    Close("span"), Close("div")>>

\* lines 726-735: one bar
Bar ==
  <<Open("div"), Open("div"), Text("label:"), Close("div"), Open("div"), Open("div"),
    Open("span"), Text("sessions"), Close("span"), Close("div"), Close("div"),
    Close("div")>>

RECURSIVE Repeat(_, _)
Repeat(tokens, n) == IF n = 0 THEN <<>> ELSE tokens \o Repeat(tokens, n - 1)

\* lines 700-710
PieMarkup(n) ==
  <<Open("div"), Open("svg")>> \o Repeat(PieSegment, n) \o <<Close("svg"), Open("div")>>
  \o Repeat(PieLegend, n) \o <<Close("div"), Close("div")>>

\* line 740
BarMarkup(n) == <<Open("div")>> \o Repeat(Bar, n) \o <<Close("div")>>

(***************************************************************************)
(* runFocusedReport (g4a-automation.js lines 74-96): getFocusedGA4Data     *)
(* (103-149), generateInsights (747-804), sendFocusedEmailReport (821-981) *)
(* and sendErrorNotification (989-1011).  The analytics API, the language  *)
(* model and the mail service are the environment: each request succeeds   *)
(* or fails.                                                               *)
(***************************************************************************)
\* lines 131-143: the queries, in the order the object literal runs them
Queries == <<"allChannelsCurrent", "allChannelsPrevious", "organicSearchPages",
             "organicSocialData", "unassignedSources", "topRegions",
             "genderData", "ageData", "deviceData", "contactPageExits">>

\* lines 445 and 478: muteHttpExceptions, a non-200 answer gives []
Muted == {"genderData", "ageData"}

\* ok: a 200 answer; non200: an error status; error: the request itself
\* fails (no answer, or an answer that is not JSON)
FetchOutcomes == {"ok", "non200", "error"}

\* lines 830-832: the datasets that are drawn, with the titles of their charts
ChartDatasets == {"topRegions", "genderData", "ageData"}

ChartTitle(name) ==
  CASE name = "topRegions" -> "regions"
    [] name = "genderData" -> "gender"
    [] OTHER -> "age groups"

\* the rows parseGA4Response returns for a 200 answer (lines 576-577): none
\* or some
RowCounts == {0, 1}

RowsOf(n) == Arr([k \in 1..n |-> 1])

\* lines 653-655 and 700-710, lines 716-718 and 740
generatePieChart(n, title) ==
  IF NoData(RowsOf(n)) THEN Placeholder(title) ELSE PieMarkup(n)

generateBarChart(n, title) ==
  IF NoData(RowsOf(n)) THEN Placeholder(title) ELSE BarMarkup(n)

\* the answers of the language model: a candidate with text, an answer
\* without candidates, or a request or a parse that fails
LlmOutcomes == {"text", "nocandidates", "failed"}

\* the insights when nothing replaces a missing answer
generateInsightsNoFallback(llm) == IF llm = "text" THEN "ai" ELSE "none"

\* lines 776-803: the candidate text, or the text of getFallbackInsights
generateInsights(llm) == IF llm = "text" THEN "ai" ELSE "fallback"

\* lines 445-451 against lines 229-238: whether the outcome of a query
\* raises an exception
QueryThrows(name, outcome) ==
  \/ outcome = "error"
  \/ outcome = "non200" /\ name \notin Muted

ReportInit ==
  /\ \E n \in 1..MaxRecipients, ai \in BOOLEAN, key \in BOOLEAN :
       rep = [recipients |-> n, INCLUDE_AI_INSIGHTS |-> ai, GEMINI_API_KEY |-> key,
              q |-> 1, empty |-> {}, llmCalls |-> 0, aiInsights |-> "none",
              rows |-> [name \in ChartDatasets |-> 0], llm |-> "none",
              body |-> <<>>, ageBarChart |-> <<>>, failedAt |-> "none",
              failed |-> FALSE, reportTo |-> <<>>, errorTo |-> <<>>,
              sendIdx |-> 1, pc |-> "fetch"]
  /\ ct = Idle
  /\ aic = Idle
  /\ chg = Idle
  /\ pine = Idle
  /\ post = Idle
  /\ gc = Idle
  /\ ext = Idle
  /\ chat = Idle
  /\ chart = Idle
  /\ awc = Idle
  /\ sa = Idle
  /\ per = Idle

\* the catch of lines 92-95: the error is logged and sendErrorNotification
\* starts
Caught(r) ==
  [r EXCEPT !.failed = TRUE, !.failedAt = r.pc, !.sendIdx = 1, !.pc = "notify"]

\* lines 131-143: one query of getFocusedGA4Data
FetchQuery ==
  /\ rep.pc = "fetch"
  /\ \E outcome \in FetchOutcomes, n \in RowCounts :
       LET name == Queries[rep.q] IN
         IF QueryThrows(name, outcome)
         THEN rep' = Caught(rep)
         ELSE rep' = [rep EXCEPT
                        !.empty = IF outcome = "non200" THEN @ \cup {name} ELSE @,
                        !.rows = IF name \in ChartDatasets /\ outcome = "ok"
                                 THEN [@ EXCEPT ![name] = n] ELSE @,
                        !.q = @ + 1,
                        !.pc = IF rep.q = Len(Queries) THEN "insights" ELSE "fetch"]
  /\ UNCHANGED exceptRep

\* lines 82-85 with generateInsights: the prompt is built outside the try
\* block (lines 752-774: an exception there leaves generateInsights), the
\* request and its parsing are inside it (776-801: any failure gives the
\* fallback text)
Insights ==
  /\ rep.pc = "insights"
  /\ IF rep.INCLUDE_AI_INSIGHTS /\ rep.GEMINI_API_KEY
     THEN \E promptBuilt \in BOOLEAN, llm \in LlmOutcomes :
            IF ~promptBuilt
            THEN rep' = Caught(rep)
            ELSE rep' = [rep EXCEPT !.llmCalls = @ + 1,
                                    !.llm = llm,
                                    !.aiInsights = generateInsights(llm),
                                    !.pc = "build"]
     ELSE rep' = [rep EXCEPT !.pc = "build"]
  /\ UNCHANGED exceptRep

\* lines 821-967: the subject and the HTML body.  The three charts are
\* made at lines 830-832; the body takes the regions chart (line 932) and
\* the gender chart (line 939)
BuildEmail ==
  /\ rep.pc = "build"
  /\ \E ok \in BOOLEAN :
       IF ok
       THEN LET regionsPieChart ==
                  generatePieChart(rep.rows["topRegions"], ChartTitle("topRegions"))
                genderPieChart ==
                  generatePieChart(rep.rows["genderData"], ChartTitle("genderData"))
                ageBarChart ==
                  generateBarChart(rep.rows["ageData"], ChartTitle("ageData"))
            IN rep' = [rep EXCEPT !.body = <<regionsPieChart, genderPieChart>>,
                                  !.ageBarChart = ageBarChart,
                                  !.sendIdx = 1, !.pc = "send"]
       ELSE rep' = Caught(rep)
  /\ UNCHANGED exceptRep

\* lines 969-978: GmailApp.sendEmail of the report to one recipient
SendReport ==
  /\ rep.pc = "send"
  /\ rep.sendIdx <= rep.recipients
  /\ \E ok \in BOOLEAN :
       IF ok THEN rep' = [rep EXCEPT !.reportTo = Append(@, rep.sendIdx),
                                     !.sendIdx = @ + 1]
       ELSE rep' = Caught(rep)
  /\ UNCHANGED exceptRep

\* lines 980 and 90: every recipient served, the run returns
SendDone ==
  /\ rep.pc = "send"
  /\ rep.sendIdx > rep.recipients
  /\ rep' = [rep EXCEPT !.pc = "returned"]
  /\ UNCHANGED exceptRep

\* lines 1008-1010: GmailApp.sendEmail of the notification to one
\* recipient; nothing catches an exception of this call
NotifyRecipient ==
  /\ rep.pc = "notify"
  /\ rep.sendIdx <= rep.recipients
  /\ \E ok \in BOOLEAN :
       IF ok THEN rep' = [rep EXCEPT !.errorTo = Append(@, rep.sendIdx),
                                     !.sendIdx = @ + 1]
       ELSE rep' = [rep EXCEPT !.pc = "threw"]
  /\ UNCHANGED exceptRep

\* line 1011 and line 96
NotifyDone ==
  /\ rep.pc = "notify"
  /\ rep.sendIdx > rep.recipients
  /\ rep' = [rep EXCEPT !.pc = "returned"]
  /\ UNCHANGED exceptRep

ReportNext ==
  \/ FetchQuery
  \/ Insights
  \/ BuildEmail
  \/ SendReport
  \/ SendDone
  \/ NotifyRecipient
  \/ NotifyDone

SpecReport == ReportInit /\ [][ReportNext]_vars

(***************************************************************************)
(* Claims about runFocusedReport.                                          *)
(***************************************************************************)
Range(seq) == {seq[k] : k \in 1..Len(seq)}

\* C2: whenever a step of runFocusedReport fails, the error notification is
\* mailed to every configured recipient and runFocusedReport returns
\* without throwing.
C2_FailureIsNotified ==
  /\ rep.pc # "threw"
  /\ (rep.pc = "returned" /\ rep.failed) => Range(rep.errorTo) = 1..rep.recipients

\* how many of the mails of a list went to recipient r
MailsTo(list, r) == Len(SelectSeq(list, LAMBDA x : x = r))

\* C16: when a run of runFocusedReport has returned, every recipient has
\* received exactly one mail: the report if the run succeeded, the error
\* notification if it failed, never both and never none.
C16_OneMailPerRecipient ==
  rep.pc = "returned" =>
    \A r \in 1..rep.recipients :
      /\ MailsTo(rep.reportTo, r) + MailsTo(rep.errorTo, r) = 1
      /\ rep.failed <=> MailsTo(rep.errorTo, r) = 1

\* C26: if AI insights are enabled and the LLM call fails or returns no
\* candidate text, generateInsights returns the fallback text and the run
\* goes on to mail the report; if insights are disabled or no API key is
\* configured, the run makes no LLM call.
C26_FallbackInsights ==
  /\ rep.llm \in {"nocandidates", "failed"} =>
       /\ rep.aiInsights = "fallback"
       /\ rep.failedAt # "insights"
       /\ rep.pc \in {"build", "send", "returned", "notify", "threw"}
       /\ (rep.pc = "returned" /\ ~rep.failed) =>
            Range(rep.reportTo) = 1..rep.recipients
  /\ ~(rep.INCLUDE_AI_INSIGHTS /\ rep.GEMINI_API_KEY) =>
       rep.llmCalls = 0 /\ rep.llm = "none" /\ rep.aiInsights = "none"

\* a run whose LLM call failed and whose report went out
C26_Witness ==
  /\ rep.llm = "failed"
  /\ rep.pc = "returned"
  /\ ~rep.failed
  /\ Range(rep.reportTo) = 1..rep.recipients

\* C27: a non-200 answer to the gender query or to the age query gives an
\* empty list for that dataset, the run goes on to build and send the report,
\* and the report holds the 'No ... data available' placeholder in place of
\* that chart; a failing answer to any other analytics query ends the run
\* without a report.
C27_MutedQueriesGivePlaceholders ==
  /\ rep.empty \subseteq Muted
  /\ \A name \in rep.empty :
       /\ rep.rows[name] = 0
       /\ (rep.pc \in {"send", "returned"} /\ ~rep.failed) =>
            Placeholder(ChartTitle(name)) \in Range(rep.body)
  /\ rep.failedAt = "fetch" => rep.reportTo = <<>> /\ rep.body = <<>>

(***************************************************************************)
(* doPost (part_000 lines 48-60), processMessage (66-88),                  *)
(* isDocumentReviewRequest (90-98), extractDocumentId (510-521),           *)
(* reviewDocument (260-300), handleConversationalQuery (104-128) and       *)
(* gatherContext (130-159).  Messages are character sequences; the         *)
(* document service, the vector index, the rules folder and the language   *)
(* model are the environment.                                              *)
(***************************************************************************)
\* JavaScript values: undefined, strings, booleans, objects
Undefined == [t |-> "undefined"]
Str(v) == [t |-> "string", v |-> v]
Bool(v) == [t |-> "boolean", v |-> v]
Obj(v) == [t |-> "object", v |-> v]

\* String.prototype.toLowerCase on the letters that occur in messages
Lower(c) == IF c = "R" THEN "r" ELSE c
ToLowerCase(s) == [k \in 1..Len(s) |-> Lower(s[k])]

\* String.prototype.includes for a non-empty keyword
Includes(s, kw) ==
  \E k \in 1..(Len(s) - Len(kw) + 1) : SubSeq(s, k, k + Len(kw) - 1) = kw

\* lines 91-94
reviewKeywords ==
  {<<"r", "e", "v", "i", "e", "w">>,
   <<"a", "n", "a", "l", "y", "z", "e">>,
   <<"c", "h", "e", "c", "k">>,
   <<"f", "e", "e", "d", "b", "a", "c", "k">>,
   <<"d", "o", "c", "s", ".", "g", "o", "o", "g", "l", "e", ".", "c", "o", "m">>,
   <<"d", "o", "c", "u", "m", "e", "n", "t", "/", "d", "/">>,
   <<"l", "o", "o", "k", " ", "a", "t", " ", "t", "h", "i", "s", " ", "d", "o", "c">>,
   <<"c", "a", "n", " ", "y", "o", "u", " ", "r", "e", "v", "i", "e", "w">>}

\* lines 96-97
isDocumentReviewRequest(message) ==
  \E keyword \in reviewKeywords : Includes(ToLowerCase(message), keyword)

\* the character class [a-zA-Z0-9-_] of lines 512-513
IdChars == {"a", "b", "c", "d", "e", "f", "g", "h", "i", "j", "k", "l", "m",
            "n", "o", "p", "q", "r", "s", "t", "u", "v", "w", "x", "y", "z",
            "R", "1", "-", "_"}

DocumentPath == <<"/", "d", "o", "c", "u", "m", "e", "n", "t", "/", "d", "/">>

\* a match that stops after one ID character
IdRunOne(s, k) == <<s[k]>>

\* the longest run of ID characters of s from position k
RECURSIVE IdRun(_, _)
IdRun(s, k) ==
  IF k > Len(s) \/ s[k] \notin IdChars THEN <<>>
  ELSE <<s[k]>> \o IdRun(s, k + 1)

\* where /\/document\/d\/([a-zA-Z0-9-_]+)/ matches
PathMatches(url) ==
  {k \in 1..(Len(url) - Len(DocumentPath)) :
     /\ SubSeq(url, k, k + Len(DocumentPath) - 1) = DocumentPath
     /\ url[k + Len(DocumentPath)] \in IdChars}

\* lines 510-521: the first pattern that matches gives the ID; a pattern
\* matches at the leftmost place it can; <<>> stands for null (an ID is
\* never empty)
extractDocumentId(url) ==
  IF PathMatches(url) # {}
  THEN LET k == CHOOSE x \in PathMatches(url) : \A y \in PathMatches(url) : x <= y
       IN IdRun(url, k + Len(DocumentPath))
  ELSE IF url # <<>> /\ \A k \in 1..Len(url) : url[k] \in IdChars
       THEN url
       ELSE <<>>

\* messages: up to MaxPieces of these pieces, concatenated
Pieces ==
  {<<"R", "e", "v", "i", "e", "w">>,
   <<"c", "h", "e", "c", "k">>,
   <<"h", "t", "t", "p", "s", ":", "/", "/", "d", "o", "c", "s", ".", "g", "o", "o", "g", "l", "e", ".", "c", "o", "m">>,
   <<"/", "d", "o", "c", "u", "m", "e", "n", "t", "/", "d", "/">>,
   <<"a", "1">>,
   <<"-", "_">>,
   <<" ">>,
   <<"?">>}

RECURSIVE Concat(_)
Concat(ps) == IF ps = <<>> THEN <<>> ELSE Head(ps) \o Concat(Tail(ps))

Messages == {Concat(ps) : ps \in UNION {[1..n -> Pieces] : n \in 0..MaxPieces}}

\* the request bodies: no postData, text that is not JSON, the JSON null,
\* and JSON objects with or without a message and a conversation history
\* (absent, a list of messages, or a value that is not a list of messages)
Histories == {"absent", "list", "malformed"}
Bodies ==
  {[kind |-> k] : k \in {"nopostdata", "invalid", "null"}}
  \cup {[kind |-> "object", message |-> m, conversationHistory |-> h] :
          m \in {Str(x) : x \in Messages} \cup {Undefined}, h \in Histories}

\* JSON.stringify leaves out the fields whose value is undefined
JsonStringify(result) ==
  LET kept == {f \in DOMAIN result : result[f].t # "undefined"}
  IN [f \in kept |-> result[f]]

\* a handler that reports an error without the success flag
ErrorResultNoFlag(text) == [success |-> Undefined, message |-> Str(text)]

\* lines 55-58, 83-86, 123-126, 265-268, 295-298: the error results
ErrorResult(text) == [success |-> Bool(FALSE), message |-> Str(text)]

\* lines 661-719: callGemini returns non-empty text or throws
GeminiOutcomes == {"text", "throws"}

PostInit ==
  /\ \E body \in Bodies :
       post = [body |-> body, calls |-> <<>>, failed |-> FALSE,
               handler |-> "none", readError |-> "none",
               response |-> Undefined, pc |-> "doPost"]
  /\ ct = Idle
  /\ aic = Idle
  /\ chg = Idle
  /\ pine = Idle
  /\ rep = Idle
  /\ gc = Idle
  /\ ext = Idle
  /\ chat = Idle
  /\ chart = Idle
  /\ awc = Idle
  /\ sa = Idle
  /\ per = Idle

Respond(p, result, failed, calls) ==
  [p EXCEPT !.response = JsonStringify(result), !.failed = failed,
            !.calls = @ \o calls, !.pc = "responded"]

\* lines 49-51 and 54-59: a body that cannot be parsed or has no fields
\* ends in the catch of doPost
DoPostParse ==
  /\ post.pc = "doPost"
  /\ IF post.body.kind # "object"
     THEN post' = Respond(post, ErrorResult("error.toString()"), TRUE, <<>>)
     ELSE post' = [post EXCEPT !.pc = "processMessage"]
  /\ UNCHANGED exceptPost

\* lines 66-88: message.toLowerCase() throws on a missing message; a review
\* request with an extractable ID goes to reviewDocument, everything else
\* to handleConversationalQuery
ProcessMessage ==
  /\ post.pc = "processMessage"
  /\ LET message == post.body.message IN
       IF message.t # "string"
       THEN post' = Respond(post, ErrorResult("Error: TypeError"), TRUE, <<>>)
       ELSE IF isDocumentReviewRequest(message.v)
               /\ extractDocumentId(message.v) # <<>>
            THEN post' = [post EXCEPT !.handler = "reviewDocument",
                                      !.pc = "reviewDocument"]
            ELSE post' = [post EXCEPT !.handler = "handleConversationalQuery",
                                      !.pc = "handleConversationalQuery"]
  /\ UNCHANGED exceptPost

\* what DocumentApp can report when a document cannot be opened or read
ReadErrors == {"no access", "not found"}

\* an error message that does not name the document
formatErrorMessageNoId(docId, error) ==
  [head |-> "DOCUMENT UNAVAILABLE", docId |-> <<>>, reason |-> error]

\* lines 725-729: DOCUMENT UNAVAILABLE: <docId>, REASON: <error>
formatErrorMessage(docId, error) ==
  [head |-> "DOCUMENT UNAVAILABLE", docId |-> docId, reason |-> error]

\* lines 260-300: the document is read; if that fails nothing else is
\* called; the two rule lookups never throw (lines 598-601, 201-204); the
\* history is walked before callGemini (lines 489-503)
ReviewDocument ==
  /\ post.pc = "reviewDocument"
  /\ \E read \in ReadErrors \cup {"ok"}, gemini \in GeminiOutcomes :
       IF read # "ok"
       THEN post' = [Respond(post,
                             ErrorResult(formatErrorMessage(
                               extractDocumentId(post.body.message.v), read)),
                             TRUE, <<"readGoogleDoc">>)
                       EXCEPT !.readError = read]
       ELSE IF post.body.conversationHistory = "malformed"
       THEN post' = Respond(post, ErrorResult("Error: TypeError"), TRUE,
                            <<"readGoogleDoc", "retrieveFromPinecone",
                              "searchRulesInDrive">>)
       ELSE IF gemini = "throws"
       THEN post' = Respond(post, ErrorResult("Error: Failed to get response"), TRUE,
                            <<"readGoogleDoc", "retrieveFromPinecone",
                              "searchRulesInDrive", "callGemini">>)
       ELSE post' = Respond(post,
                            [success |-> Bool(TRUE), message |-> Str(gemini),
                             documentTitle |-> Str("title"),
                             rulesUsed |-> Obj("counts")],
                            FALSE,
                            <<"readGoogleDoc", "retrieveFromPinecone",
                              "searchRulesInDrive", "callGemini">>)
  /\ UNCHANGED exceptPost

\* lines 130-159: each lookup is tried; one that fails leaves its list empty
LookupOutcomes == {"found", "nothing", "fails"}
Gathered(o) == IF o = "found" THEN "some" ELSE "empty"

\* lines 104-128
HandleConversationalQuery ==
  /\ post.pc = "handleConversationalQuery"
  /\ \E pinecone \in LookupOutcomes, drive \in LookupOutcomes,
        docs \in LookupOutcomes, gemini \in GeminiOutcomes :
       LET context == [pineconeRules |-> Gathered(pinecone),
                       driveRules |-> Gathered(drive),
                       relevantDocs |-> Gathered(docs)]
           lookups == <<"retrieveFromPinecone", "searchRulesInDrive",
                        "listRuleDocuments">>
       IN IF post.body.conversationHistory = "malformed"
          THEN post' = Respond(post,
                               ErrorResult("Error processing your question: TypeError"),
                               TRUE, lookups)
          ELSE IF gemini = "throws"
          THEN post' = Respond(post,
                               ErrorResult("Error processing your question: Failed"),
                               TRUE, lookups \o <<"callGemini">>)
          ELSE post' = Respond(post,
                               [success |-> Bool(TRUE), message |-> Str(gemini),
                                context |-> Obj(context)],
                               FALSE, lookups \o <<"callGemini">>)
  /\ UNCHANGED exceptPost

PostNext ==
  \/ DoPostParse
  \/ ProcessMessage
  \/ ReviewDocument
  \/ HandleConversationalQuery

SpecPost == PostInit /\ [][PostNext]_vars

(***************************************************************************)
(* Claims about doPost.                                                    *)
(***************************************************************************)
\* C1: for every POST request doPost answers with a JSON object that has a
\* boolean success and a message, success being false whenever processing
\* failed (unparsable body, no message, unreadable document, failed call of
\* the language model, malformed history); no request ends otherwise.
C1_AlwaysJsonResult ==
  /\ post.pc \in {"idle", "doPost", "processMessage", "reviewDocument",
                  "handleConversationalQuery", "responded"}
  /\ post.pc = "responded" =>
       /\ "success" \in DOMAIN post.response
       /\ post.response.success.t = "boolean"
       /\ "message" \in DOMAIN post.response
       /\ post.response.message.t = "string"
       /\ post.failed => post.response.success.v = FALSE

\* answered requests of every kind: a body that is not JSON, a request
\* without a message, a failed call of the language model
C1_Witness ==
  /\ post.pc = "responded"
  /\ post.failed
  /\ post.body.kind = "object"
  /\ post.body.message.t = "string"
  /\ post.calls # <<>>
  /\ post.calls[Len(post.calls)] = "callGemini"

(***************************************************************************)
(* gatherContext (part_000 lines 130-159) with its three lookups:          *)
(* retrieveFromPinecone (593-602), searchRulesInDrive (166-205) and        *)
(* listRuleDocuments (215-238).  What the services answer is the           *)
(* environment: a lookup runs to its end or throws part way, having        *)
(* collected some items by then.                                           *)
(***************************************************************************)
Items(n) == [k \in 1..n |-> "item"]

\* how a lookup can run: to its end, or to an exception, with the items it
\* has collected by then
LookupRuns ==
  {[kind |-> k, items |-> Items(n)] : k \in {"ok", "throws"}, n \in 0..MaxMatches}

\* a lookup that hands back what it had collected when it failed
CatchReturnsPartial(run) == run.items

\* lines 598-601, 201-204, 234-237: the catch of a lookup returns []
CatchReturnsEmpty(run) == IF run.kind = "throws" THEN <<>> ELSE run.items

\* lines 593-602: text.substring throws on a query that is not a string
retrieveFromPinecone(query, run) ==
  IF query.t # "string" THEN <<>> ELSE CatchReturnsEmpty(run)

\* lines 166-205 and 215-238: [] without a configured folder
FolderLookup(configured, run) ==
  IF ~configured THEN <<>> ELSE CatchReturnsEmpty(run)

\* has the lookup failed
LookupFailed(run) == run.kind = "throws"

GatherInit ==
  /\ \E query \in {Str(<<"a">>), Str(<<>>), Undefined}, configured \in BOOLEAN :
       gc = [query |-> query, RULES_FOLDER_ID |-> configured,
             context |-> [pineconeRules |-> <<>>, driveRules |-> <<>>,
                          relevantDocs |-> <<>>],
             attempted |-> <<>>, failed |-> {}, pc |-> "pinecone"]
  /\ ct = Idle
  /\ aic = Idle
  /\ chg = Idle
  /\ pine = Idle
  /\ rep = Idle
  /\ post = Idle
  /\ ext = Idle
  /\ chat = Idle
  /\ chart = Idle
  /\ awc = Idle
  /\ sa = Idle
  /\ per = Idle

Attempt(g, lookup, field, list, hasFailed, next) ==
  [g EXCEPT !.context[field] = list,
            !.attempted = @ \o <<lookup>>,
            !.failed = IF hasFailed THEN @ \cup {field} ELSE @,
            !.pc = next]

\* lines 137-142
GatherPinecone ==
  /\ gc.pc = "pinecone"
  /\ \E run \in LookupRuns :
       gc' = Attempt(gc, "retrieveFromPinecone", "pineconeRules",
                     retrieveFromPinecone(gc.query, run),
                     gc.query.t # "string" \/ LookupFailed(run), "drive")
  /\ UNCHANGED exceptGc

\* lines 144-149
GatherDrive ==
  /\ gc.pc = "drive"
  /\ \E run \in LookupRuns :
       gc' = Attempt(gc, "searchRulesInDrive", "driveRules",
                     FolderLookup(gc.RULES_FOLDER_ID, run),
                     gc.RULES_FOLDER_ID /\ LookupFailed(run), "docs")
  /\ UNCHANGED exceptGc

\* lines 151-156
GatherDocs ==
  /\ gc.pc = "docs"
  /\ \E run \in LookupRuns :
       gc' = Attempt(gc, "listRuleDocuments", "relevantDocs",
                     FolderLookup(gc.RULES_FOLDER_ID, run),
                     gc.RULES_FOLDER_ID /\ LookupFailed(run), "return")
  /\ UNCHANGED exceptGc

\* line 158
GatherReturn ==
  /\ gc.pc = "return"
  /\ gc' = [gc EXCEPT !.pc = "returned"]
  /\ UNCHANGED exceptGc

GatherNext ==
  \/ GatherPinecone
  \/ GatherDrive
  \/ GatherDocs
  \/ GatherReturn

SpecGather == GatherInit /\ [][GatherNext]_vars

\* is v a list
IsList(v) == DOMAIN v = 1..Len(v)

\* C11: gatherContext returns a context with the three lists; all three
\* lookups have been attempted, in order; a lookup that failed has left its
\* own list empty; the routine has no state in which it has thrown.
C11_BestEffortContext ==
  /\ gc.pc \in {"idle", "pinecone", "drive", "docs", "return", "returned"}
  /\ gc.pc = "returned" =>
       /\ DOMAIN gc.context = {"pineconeRules", "driveRules", "relevantDocs"}
       /\ \A f \in DOMAIN gc.context : IsList(gc.context[f])
       /\ gc.attempted = <<"retrieveFromPinecone", "searchRulesInDrive",
                           "listRuleDocuments">>
       /\ \A f \in gc.failed : gc.context[f] = <<>>

\* a returned context in which the first lookup failed and a later one
\* found something
C11_Witness ==
  /\ gc.pc = "returned"
  /\ "pineconeRules" \in gc.failed
  /\ gc.context.relevantDocs # <<>>

(***************************************************************************)
(* extractDocumentId (part_000 lines 510-521) called on its own, as in     *)
(* testHighlighting (lines 1513-1524).                                     *)
(***************************************************************************)
ExtractInit ==
  /\ \E url \in Messages : ext = [url |-> url, result |-> <<>>, pc |-> "call"]
  /\ ct = Idle
  /\ aic = Idle
  /\ chg = Idle
  /\ pine = Idle
  /\ rep = Idle
  /\ post = Idle
  /\ gc = Idle
  /\ chat = Idle
  /\ chart = Idle
  /\ awc = Idle
  /\ sa = Idle
  /\ per = Idle

\* lines 510-521
ExtractCall ==
  /\ ext.pc = "call"
  /\ ext' = [ext EXCEPT !.result = extractDocumentId(ext.url), !.pc = "returned"]
  /\ UNCHANGED exceptExt

ExtractNext == ExtractCall

SpecExtract == ExtractInit /\ [][ExtractNext]_vars

\* the text of s from position k is: /document/d/, then id, then either
\* the end of s or a character that cannot be part of an ID
IsIdSegmentAt(s, k, id) ==
  /\ Len(id) >= 1
  /\ k + Len(DocumentPath) + Len(id) - 1 <= Len(s)
  /\ SubSeq(s, k, k + Len(DocumentPath) - 1) = DocumentPath
  /\ SubSeq(s, k + Len(DocumentPath), k + Len(DocumentPath) + Len(id) - 1) = id
  /\ \A j \in 1..Len(id) : id[j] \in IdChars
  /\ LET after == k + Len(DocumentPath) + Len(id)
     IN after <= Len(s) => s[after] \notin IdChars

\* s has the form .../document/d/<id>...
HasIdSegment(s) ==
  \E k \in 1..Len(s), n \in 1..Len(s) :
    k + Len(DocumentPath) + n - 1 <= Len(s)
    /\ IsIdSegmentAt(s, k, SubSeq(s, k + Len(DocumentPath), k + Len(DocumentPath) + n - 1))

OnlyIdChars(s) == s # <<>> /\ \A j \in 1..Len(s) : s[j] \in IdChars

\* C12: for a string of the form .../document/d/<id>... the result is the
\* <id> segment (the maximal run of ID characters after /document/d/) of
\* the first such place; for a string of ID characters only it is the whole
\* string; for every other string it is null.
C12_ExtractsId ==
  ext.pc = "returned" =>
    IF HasIdSegment(ext.url)
    THEN \E k \in 1..Len(ext.url) :
           /\ IsIdSegmentAt(ext.url, k, ext.result)
           /\ \A j \in 1..(k - 1) :
                ~ \E n \in 1..Len(ext.url) :
                    j + Len(DocumentPath) + n - 1 <= Len(ext.url)
                    /\ IsIdSegmentAt(ext.url, j,
                         SubSeq(ext.url, j + Len(DocumentPath),
                                j + Len(DocumentPath) + n - 1))
    ELSE IF OnlyIdChars(ext.url)
    THEN ext.result = ext.url
    ELSE ext.result = <<>>

\* an ID of more than one character extracted from a URL that goes on after
\* the ID
C12_Witness ==
  /\ ext.pc = "returned"
  /\ HasIdSegment(ext.url)
  /\ Len(ext.result) > 1
  /\ ext.url[Len(ext.url)] \notin IdChars

(***************************************************************************)
(* detectUserIntent (part_000 lines 1637-1693).  The regular expressions   *)
(* are evaluated on character sequences: a rule is a set of alternatives,  *)
(* an alternative a sequence of literals joined by .* (any characters but  *)
(* a line break).  Only the type and the docId of the intent are modelled, *)
(* not the docName capture of query_specific_doc.                          *)
(***************************************************************************)
\* the literal lit stands in s at position i
At(s, lit, i) ==
  i >= 1 /\ i + Len(lit) - 1 <= Len(s) /\ SubSeq(s, i, i + Len(lit) - 1) = lit

\* . matches every character but a line break
NoLineBreak(s, a, b) == \A k \in a..b : s[k] # NL

\* the rest of an alternative matches from position start on
RECURSIVE ThenFrom(_, _, _)
ThenFrom(s, parts, start) ==
  \/ parts = <<>>
  \/ \E j \in start..Len(s) :
       /\ NoLineBreak(s, start, j - 1)
       /\ At(s, Head(parts), j)
       /\ ThenFrom(s, Tail(parts), j + Len(Head(parts)))

MatchesSeq(s, parts) ==
  \E i \in 1..Len(s) :
    At(s, Head(parts), i) /\ ThenFrom(s, Tail(parts), i + Len(Head(parts)))

\* lower.match(/alt1|alt2|.../) is not null
Matches(s, rule) == \E parts \in rule : MatchesSeq(s, parts)

\* line 1641
ExtractRule ==
  {<<<<"e", "x", "t", "r", "a", "c", "t">>>>,
   <<<<"s", "c", "a", "n">>>>,
   <<<<"c", "h", "e", "c", "k">>, <<"n", "e", "w">>>>,
   <<<<"u", "p", "d", "a", "t", "e">>, <<"d", "o", "c", "s">>>>,
   <<<<"n", "e", "w", "l", "y", " ", "a", "d", "d", "e", "d">>>>,
   <<<<"g", "e", "t">>, <<"n", "e", "w">>, <<"d", "o", "c", "u", "m", "e",
      "n", "t", "s">>>>}

\* line 1646
CommentRule ==
  {<<<<"a", "n", "a", "l", "y", "z", "e">>, <<"c", "o", "m", "m", "e", "n",
      "t">>>>,
   <<<<"r", "e", "v", "i", "e", "w">>, <<"c", "o", "m", "m", "e", "n",
      "t">>>>,
   <<<<"c", "h", "e", "c", "k">>, <<"c", "o", "m", "m", "e", "n", "t">>>>,
   <<<<"a", "d", "d">>, <<"c", "o", "m", "m", "e", "n", "t">>>>,
   <<<<"h", "i", "g", "h", "l", "i", "g", "h", "t">>, <<"i", "s", "s", "u",
      "e">>>>}

\* line 1658
ReviewRule ==
  {<<<<"r", "e", "v", "i", "e", "w">>>>,
   <<<<"a", "n", "a", "l", "y", "z", "e">>>>,
   <<<<"c", "h", "e", "c", "k">>>>,
   <<<<"f", "e", "e", "d", "b", "a", "c", "k">>>>,
   <<<<"d", "o", "c", "s", ".", "g", "o", "o", "g", "l", "e", ".", "c", "o",
      "m">>>>}

\* line 1669
SyncRule ==
  {<<<<"s", "y", "n", "c">>>>,
   <<<<"u", "p", "l", "o", "a", "d">>, <<"p", "i", "n", "e", "c", "o", "n",
      "e">>>>,
   <<<<"i", "n", "d", "e", "x">>>>,
   <<<<"e", "m", "b", "e", "d">>>>}

\* line 1683
TabRule ==
  {<<<<"t", "a", "b">>>>,
   <<<<"t", "a", "b", "s">>>>,
   <<<<"s", "e", "c", "t", "i", "o", "n">>>>,
   <<<<"s", "e", "c", "t", "i", "o", "n", "s">>>>,
   <<<<"s", "t", "r", "u", "c", "t", "u", "r", "e">>>>,
   <<<<"o", "u", "t", "l", "i", "n", "e">>>>}

\* line 1688
QueryRule ==
  {<<<<"h", "o", "w", " ", "m", "a", "n", "y">>>>,
   <<<<"l", "i", "s", "t">>>>,
   <<<<"s", "h", "o", "w">>>>,
   <<<<"f", "i", "n", "d">>>>,
   <<<<"s", "e", "a", "r", "c", "h">>>>,
   <<<<"d", "o", "c", "u", "m", "e", "n", "t">>>>,
   <<<<"d", "o", "c", "u", "m", "e", "n", "t", "s">>>>,
   <<<<"c", "o", "m", "m", "e", "n", "t">>>>,
   <<<<"c", "o", "m", "m", "e", "n", "t", "s">>>>,
   <<<<"r", "e", "v", "i", "s", "i", "o", "n">>>>,
   <<<<"r", "e", "v", "i", "s", "i", "o", "n", "s">>>>}

Quotes == {"'"}
DocWords == {<<"d", "o", "c", "u", "m", "e", "n", "t">>, <<"d", "o", "c">>,
      <<"f", "i", "l", "e">>}
About == <<"a", "b", "o", "u", "t">>
DocumentWord == <<"d", "o", "c", "u", "m", "e", "n", "t">>

\* line 1674, first alternative: (?:document|doc|file).*["']([^"']+)["']
QuotedNameMatches(s) ==
  \E w \in DocWords, i \in 1..Len(s) :
    /\ At(s, w, i)
    /\ \E j \in (i + Len(w))..Len(s) :
         /\ s[j] \in Quotes
         /\ NoLineBreak(s, i + Len(w), j - 1)
         /\ \E k \in (j + 2)..Len(s) :
              /\ s[k] \in Quotes
              /\ \A x \in (j + 1)..(k - 1) : s[x] \notin Quotes

\* line 1674, second alternative: about\s+(.+?)\s+document
AboutMatches(s) ==
  \E i \in 1..Len(s) :
    /\ At(s, About, i)
    /\ \E a \in (i + Len(About) + 1)..Len(s) :
         /\ \A x \in (i + Len(About))..(a - 1) : s[x] \in Whitespace
         /\ \E c \in (a + 2)..Len(s) :
              /\ At(s, DocumentWord, c)
              /\ \E b \in (a + 1)..(c - 1) :
                   /\ NoLineBreak(s, a, b - 1)
                   /\ \A x \in b..(c - 1) : s[x] \in Whitespace

DocNameMatches(s) == QuotedNameMatches(s) \/ AboutMatches(s)

DocsUrlPrefix ==
  <<"h", "t", "t", "p", "s", ":", "/", "/", "d", "o", "c", "s", ".", "g",
      "o", "o", "g", "l", "e", ".", "c", "o", "m", "/", "d", "o", "c", "u",
      "m", "e", "n", "t", "/", "d", "/">>

\* where /https:\/\/docs\.google\.com\/document\/d\/([a-zA-Z0-9-_]+)/ matches
DocsUrlMatches(message) ==
  {k \in 1..(Len(message) - Len(DocsUrlPrefix)) :
     /\ At(message, DocsUrlPrefix, k)
     /\ message[k + Len(DocsUrlPrefix)] \in IdChars}

\* docMatch[1] of lines 1647 and 1659
DocsUrlId(message) ==
  LET k == CHOOSE x \in DocsUrlMatches(message) :
             \A y \in DocsUrlMatches(message) : x <= y
  IN IdRun(message, k + Len(DocsUrlPrefix))

Intent(type) == [type |-> type, docId |-> <<>>]
IntentWithDoc(type, docId) == [type |-> type, docId |-> docId]

\* a classifier that tests the sync rule before the review rule
detectUserIntentSyncFirst(message) ==
  LET lower == ToLowerCase(message) IN
    IF Matches(lower, ExtractRule) THEN Intent("extract_new_docs")
    ELSE IF Matches(lower, CommentRule)
    THEN IF DocsUrlMatches(message) # {}
         THEN IntentWithDoc("analyze_with_comments", DocsUrlId(message))
         ELSE Intent("analyze_with_comments_prompt")
    ELSE IF Matches(lower, SyncRule) THEN Intent("sync_to_pinecone")
    ELSE IF Matches(lower, ReviewRule) /\ DocsUrlMatches(message) # {}
    THEN IntentWithDoc("review_document", DocsUrlId(message))
    ELSE IF DocNameMatches(lower) THEN Intent("query_specific_doc")
    ELSE IF Matches(lower, TabRule) THEN Intent("analyze_tabs")
    ELSE IF Matches(lower, QueryRule) THEN Intent("query_documents")
    ELSE Intent("general_chat")

\* lines 1637-1693
detectUserIntent(message) ==
  LET lower == ToLowerCase(message) IN
    IF Matches(lower, ExtractRule) THEN Intent("extract_new_docs")
    ELSE IF Matches(lower, CommentRule)
    THEN IF DocsUrlMatches(message) # {}
         THEN IntentWithDoc("analyze_with_comments", DocsUrlId(message))
         ELSE Intent("analyze_with_comments_prompt")
    ELSE IF Matches(lower, ReviewRule) /\ DocsUrlMatches(message) # {}
    THEN IntentWithDoc("review_document", DocsUrlId(message))
    ELSE IF Matches(lower, SyncRule) THEN Intent("sync_to_pinecone")
    ELSE IF DocNameMatches(lower) THEN Intent("query_specific_doc")
    ELSE IF Matches(lower, TabRule) THEN Intent("analyze_tabs")
    ELSE IF Matches(lower, QueryRule) THEN Intent("query_documents")
    ELSE Intent("general_chat")

\* chat messages: up to MaxIntentPieces of these pieces, concatenated
IntentPieces ==
  {<<"s", "c", "a", "n">>,
   <<"R", "e", "v", "i", "e", "w">>,
   <<"R", "e", "v", "i", "e", "w", " ", "c", "o", "m", "m", "e", "n", "t">>,
   <<" ", "c", "o", "m", "m", "e", "n", "t">>,
   <<" ", "h", "t", "t", "p", "s", ":", "/", "/", "d", "o", "c", "s", ".",
      "g", "o", "o", "g", "l", "e", ".", "c", "o", "m", "/", "d", "o", "c",
      "u", "m", "e", "n", "t", "/", "d", "/", "a", "1">>,
   <<"s", "y", "n", "c">>,
   <<"d", "o", "c", " ", "'", "x", "'">>,
   <<"a", "b", "o", "u", "t", " ", "x", " ", "d", "o", "c", "u", "m", "e",
      "n", "t">>,
   <<"t", "a", "b", "s">>,
   <<"l", "i", "s", "t">>,
   <<"h", "i">>}

ChatMessages ==
  {Concat(ps) : ps \in UNION {[1..n -> IntentPieces \cup {<<NL>>}] :
                                n \in 0..MaxIntentPieces}}

(***************************************************************************)
(* processChatMessage (part_000 lines 1695-1791).  handleAnalyzeWithComments *)
(* (1530-1600) and handleDocumentReview (1606-1635) are in the source; the *)
(* other six handlers are called here but defined elsewhere.               *)
(***************************************************************************)
Null == [t |-> "null"]
Thrown == [t |-> "throws"]
\* a value that is not an object, such as a number
NotAnObject == [t |-> "number"]

\* !x for the values a message can have
Falsy(v) == v.t \in {"undefined", "null"} \/ (v.t = "string" /\ v.v = "")

\* lines 1530-1600 and 1606-1635: both handlers return success and a
\* message on every path
SourceHandlerResults ==
  {Obj([success |-> Bool(b), message |-> Str("text")]) : b \in BOOLEAN}

\* the handlers defined elsewhere: such a handler throws (also when it is
\* not defined), returns nothing or a value that is not an object, or an
\* object with or without a boolean success and with or without a message
OtherHandlerResults ==
  {Thrown, Undefined, Null, NotAnObject}
  \cup {Obj([success |-> sc, message |-> m]) :
          sc \in {Undefined, Bool(TRUE), Bool(FALSE)},
          m \in {Undefined, Str(""), Str("text")}}

\* lines 1706-1757: the handler of each intent
HandlerOf(type) ==
  CASE type = "extract_new_docs" -> "handleExtractNewDocs"
    [] type = "analyze_with_comments" -> "handleAnalyzeWithComments"
    [] type = "review_document" -> "handleDocumentReview"
    [] type = "query_documents" -> "handleDocumentQuery"
    [] type = "query_specific_doc" -> "handleSpecificDocQuery"
    [] type = "analyze_tabs" -> "handleTabAnalysis"
    [] type = "sync_to_pinecone" -> "handleSyncToPinecone"
    [] type = "general_chat" -> "handleGeneralQuery"
    [] OTHER -> "none"

\* what the switch can assign to result, or Thrown
HandlerResults(intent) ==
  CASE intent.type = "analyze_with_comments_prompt" ->
         {Obj([success |-> Bool(TRUE), message |-> Str("how to use")])}
    [] intent.type \in {"analyze_with_comments", "review_document"} ->
         IF intent.docId # <<>> THEN SourceHandlerResults
         ELSE {Obj([success |-> Bool(TRUE), message |-> Str("please provide the URL")])}
    [] OTHER -> OtherHandlerResults

\* a result returned as the handler made it
EnsureFieldsNot(result) == result

\* lines 1768-1776
EnsureFields(result) ==
  [success |-> IF result.success.t = "undefined" THEN Bool(TRUE) ELSE result.success,
   message |-> IF Falsy(result.message) THEN Str("No response generated")
               ELSE result.message]

\* lines 1759-1779
Normalise(raw) ==
  IF raw.t \in {"undefined", "null"} \/ raw.t # "object"
  THEN ErrorResult("Invalid response from handler")
  ELSE EnsureFields(raw.v)

ChatInit ==
  /\ \E message \in {Str(m) : m \in ChatMessages} \cup {Undefined} :
       chat = [message |-> message, intent |-> Intent("none"),
               handler |-> "none", raw |-> Undefined, threw |-> FALSE,
               result |-> Undefined, pc |-> "detect"]
  /\ ct = Idle
  /\ aic = Idle
  /\ chg = Idle
  /\ pine = Idle
  /\ rep = Idle
  /\ post = Idle
  /\ gc = Idle
  /\ ext = Idle
  /\ chart = Idle
  /\ awc = Idle
  /\ sa = Idle
  /\ per = Idle

\* lines 1783-1789
ChatCaught(c, text) ==
  [c EXCEPT !.threw = TRUE, !.result = ErrorResult(text), !.pc = "returned"]

\* lines 1699-1701: message.toLowerCase() throws on a message that is not a
\* string
DetectIntent ==
  /\ chat.pc = "detect"
  /\ IF chat.message.t # "string"
     THEN chat' = ChatCaught(chat, "Error: TypeError")
     ELSE chat' = [chat EXCEPT !.intent = detectUserIntent(chat.message.v),
                               !.pc = "dispatch"]
  /\ UNCHANGED exceptChat

\* lines 1705-1757
Dispatch ==
  /\ chat.pc = "dispatch"
  /\ \E raw \in HandlerResults(chat.intent) :
       LET called == [chat EXCEPT !.handler = HandlerOf(chat.intent.type)] IN
         IF raw = Thrown
         THEN chat' = ChatCaught(called, "Error: handler failed")
         ELSE chat' = [called EXCEPT !.raw = raw, !.pc = "ensure"]
  /\ UNCHANGED exceptChat

\* lines 1759-1781
EnsureStructure ==
  /\ chat.pc = "ensure"
  /\ chat' = [chat EXCEPT !.result = Normalise(chat.raw), !.pc = "returned"]
  /\ UNCHANGED exceptChat

ChatNext ==
  \/ DetectIntent
  \/ Dispatch
  \/ EnsureStructure

SpecChat == ChatInit /\ [][ChatNext]_vars

(***************************************************************************)
(* Claims about detectUserIntent and processChatMessage.                   *)
(***************************************************************************)
\* which rules of the classifier a message matches, in the order of the
\* code; the last rule is the default
RulesMatched(message) ==
  LET lower == ToLowerCase(message) IN
    <<Matches(lower, ExtractRule),
      Matches(lower, CommentRule),
      Matches(lower, ReviewRule) /\ DocsUrlMatches(message) # {},
      Matches(lower, SyncRule),
      DocNameMatches(lower),
      Matches(lower, TabRule),
      Matches(lower, QueryRule),
      TRUE>>

RuleTypes ==
  <<"extract_new_docs", "analyze_with_comments", "review_document",
    "sync_to_pinecone", "query_specific_doc", "analyze_tabs",
    "query_documents", "general_chat">>

FirstRule(message) ==
  LET matched == RulesMatched(message)
  IN CHOOSE k \in 1..8 : matched[k] /\ \A j \in 1..(k - 1) : ~matched[j]

\* C13: for every message detectUserIntent returns the intent of the first
\* rule that matches, in the order extract_new_docs, comment analysis,
\* review_document (only with a Docs URL), sync_to_pinecone,
\* query_specific_doc, analyze_tabs, query_documents, and general_chat when
\* none matches; comment analysis carries the docId of the URL or, without
\* a URL, is analyze_with_comments_prompt; it never fails on a string.
C13_FirstMatchingRule ==
  /\ (chat.pc = "returned" /\ chat.handler = "none" /\ chat.threw)
       => chat.message.t # "string"
  /\ chat.pc = "dispatch" =>
       LET message == chat.message.v
           k == FirstRule(message)
           hasUrl == DocsUrlMatches(message) # {}
       IN /\ chat.intent.type =
               IF k = 2 /\ ~hasUrl THEN "analyze_with_comments_prompt"
               ELSE RuleTypes[k]
          /\ chat.intent.docId =
               IF k \in {2, 3} /\ hasUrl THEN DocsUrlId(message) ELSE <<>>

\* a message with a review keyword and no Docs URL, classified by a later
\* rule
C13_Witness ==
  /\ chat.pc = "dispatch"
  /\ Matches(ToLowerCase(chat.message.v), ReviewRule)
  /\ DocsUrlMatches(chat.message.v) = {}
  /\ chat.intent.type = "sync_to_pinecone"

\* C19: processChatMessage returns an object with a boolean success and a
\* non-empty message and never throws: a failing handler gives success =
\* false with the error text, a result without success gets success = true,
\* a result without a message gets 'No response generated'.
C19_AlwaysStructuredResult ==
  /\ chat.pc \in {"idle", "detect", "dispatch", "ensure", "returned"}
  /\ chat.pc = "returned" =>
       /\ chat.result.success.t = "boolean"
       /\ chat.result.message.t = "string"
       /\ chat.result.message.v # ""
       /\ chat.threw =>
            /\ chat.result.success.v = FALSE
            /\ chat.result.message.v \in {"Error: TypeError", "Error: handler failed"}
       /\ (~chat.threw /\ chat.raw.t = "object") =>
            /\ chat.raw.v.success.t = "undefined" => chat.result.success.v = TRUE
            /\ chat.raw.v.success.t = "boolean" => chat.result.success = chat.raw.v.success
            /\ Falsy(chat.raw.v.message) =>
                 chat.result.message.v = "No response generated"

\* a handler result without success and without a message, completed
C19_Witness ==
  /\ chat.pc = "returned"
  /\ chat.raw.t = "object"
  /\ chat.raw.v.success.t = "undefined"
  /\ chat.raw.v.message.t = "undefined"
  /\ chat.handler = "handleGeneralQuery"

(***************************************************************************)
(* generatePieChart (g4a-automation.js lines 653-711) and generateBarChart *)
(* (716-741).  Markup is a sequence of tokens: opening tags, closing tags, *)
(* self-closing tags and text.                                             *)
(***************************************************************************)
\* the titles of lines 830-832
Titles == {"regions", "gender", "age groups"}

SessionCounts == {0, 1, 2}

\* the data of a chart: null, undefined, or rows with a sessions count
ChartData ==
  {Null, Undefined}
  \cup {Arr(rows) : rows \in UNION {[1..n -> SessionCounts] : n \in 0..MaxChartItems}}

ChartInit ==
  /\ \E kind \in {"pie", "bar"}, data \in ChartData, title \in Titles :
       chart = [kind |-> kind, data |-> data, title |-> title, idx |-> 0,
                divisions |-> 0, rendered |-> 0, markup |-> <<>>, pc |-> "start"]
  /\ ct = Idle
  /\ aic = Idle
  /\ chg = Idle
  /\ pine = Idle
  /\ rep = Idle
  /\ post = Idle
  /\ gc = Idle
  /\ ext = Idle
  /\ chat = Idle
  /\ awc = Idle
  /\ sa = Idle
  /\ per = Idle

\* lines 654-656 and 717-719
ChartStart ==
  /\ chart.pc = "start"
  /\ IF NoData(chart.data)
     THEN chart' = [chart EXCEPT !.markup = Placeholder(chart.title),
                                 !.pc = "returned"]
     ELSE chart' = [chart EXCEPT !.idx = 1, !.pc = "items"]
  /\ UNCHANGED exceptChart

\* lines 663-686 and 723-736: one item: its share (a division) and markup
ChartItem ==
  /\ chart.pc = "items"
  /\ chart.idx <= Len(chart.data.v)
  /\ chart' = [chart EXCEPT !.idx = @ + 1, !.divisions = @ + 1,
                            !.rendered = @ + 1]
  /\ UNCHANGED exceptChart

\* lines 700-710 and 740
ChartReturn ==
  /\ chart.pc = "items"
  /\ chart.idx > Len(chart.data.v)
  /\ chart' = [chart EXCEPT
                 !.markup = IF chart.kind = "pie" THEN PieMarkup(chart.rendered)
                            ELSE BarMarkup(chart.rendered),
                 !.pc = "returned"]
  /\ UNCHANGED exceptChart

ChartNext ==
  \/ ChartStart
  \/ ChartItem
  \/ ChartReturn

SpecChart == ChartInit /\ [][ChartNext]_vars

\* the tags still open after the tokens, innermost first; <<"?">> in front
\* when a closing tag did not match
RECURSIVE OpenTags(_, _)
OpenTags(tokens, stack) ==
  IF tokens = <<>> THEN stack
  ELSE LET tok == Head(tokens) IN
    IF tok.k = "open" THEN OpenTags(Tail(tokens), <<tok.v>> \o stack)
    ELSE IF tok.k = "close"
    THEN IF stack # <<>> /\ Head(stack) = tok.v
         THEN OpenTags(Tail(tokens), Tail(stack))
         ELSE <<"?">> \o stack
    ELSE OpenTags(Tail(tokens), stack)

\* every opened tag is closed, in order
WellFormed(tokens) == OpenTags(tokens, <<>>) = <<>>

\* the tokens are one element: the first tag is closed by the last token
SingleElement(tokens) ==
  /\ Len(tokens) >= 2
  /\ tokens[1].k = "open"
  /\ WellFormed(tokens)
  /\ \A n \in 1..(Len(tokens) - 1) : OpenTags(SubSeq(tokens, 1, n), <<>>) # <<>>

TextOf(tokens) == SelectSeq(tokens, LAMBDA tok : tok.k = "text")

\* C14: for null, undefined or an empty list both chart functions return
\* one placeholder element saying that there is no data for the title, with
\* every opened tag closed, and divide and render nothing.
C14_EmptyChartPlaceholder ==
  (chart.pc = "returned" /\ NoData(chart.data)) =>
    /\ SingleElement(chart.markup)
    /\ TextOf(chart.markup) =
         <<Text("No "), Text(chart.title), Text(" data available")>>
    /\ Len(SelectSeq(chart.markup, LAMBDA tok : tok.k = "open")) = 1
    /\ chart.divisions = 0
    /\ chart.rendered = 0

\* a bar chart asked for with an undefined list
C14_Witness ==
  /\ chart.pc = "returned"
  /\ chart.kind = "bar"
  /\ chart.data.t = "undefined"
  /\ chart.markup # <<>>

(***************************************************************************)
(* Claims about the routing of processMessage and about reviewDocument.    *)
(***************************************************************************)
\* C17: processMessage calls reviewDocument exactly for the messages that
\* are a document URL (.../document/d/<id>...) or a bare document ID, and
\* handleConversationalQuery for every other message; one handler per
\* message.
C17_RoutesUrlsAndIds ==
  (post.pc \notin {"idle", "doPost", "processMessage"}
   /\ post.body.kind = "object" /\ post.body.message.t = "string") =>
    /\ post.handler \in {"reviewDocument", "handleConversationalQuery"}
    /\ post.handler = "reviewDocument"
         <=> (HasIdSegment(post.body.message.v) \/ OnlyIdChars(post.body.message.v))

\* C18: when the document cannot be opened or read, reviewDocument answers
\* success = false with the DOCUMENT UNAVAILABLE message that names the
\* document ID and the reason, and has called neither the vector database
\* nor the rules folder nor the language model.
C18_UnreadableDocument ==
  (post.pc = "responded" /\ post.readError # "none") =>
    /\ post.handler = "reviewDocument"
    /\ post.response.success = Bool(FALSE)
    /\ post.response.message.t = "string"
    /\ post.response.message.v.head = "DOCUMENT UNAVAILABLE"
    /\ post.response.message.v.docId = extractDocumentId(post.body.message.v)
    /\ post.response.message.v.docId # <<>>
    /\ post.response.message.v.reason = post.readError
    /\ post.calls = <<"readGoogleDoc">>

\* a review of a document given by its URL that could not be read
C18_Witness ==
  /\ post.pc = "responded"
  /\ post.readError = "no access"
  /\ HasIdSegment(post.body.message.v)

(***************************************************************************)
(* handleAnalyzeWithComments (part_000 lines 1530-1600),                   *)
(* reviewDocumentWithHighlighting (1437-1478), addCommentsWithBackup       *)
(* (1248-1363) and addBackupSection (1369-1431).  The document service,    *)
(* the comment endpoint and the analysis are the environment.              *)
(***************************************************************************)
\* an issue of the analysis, by its text: the text occurs in the document,
\* does not occur in it, or the issue has no text
IssueKinds == {"present", "absent", "notext"}

AnalysisIssues == UNION {[1..n -> IssueKinds] : n \in 0..MaxAnalysisIssues}

\* the two formatting calls of lines 1280-1281: both succeed, the first
\* throws, or the second throws after the background colour is set
HighlightOutcomes == {"ok", "colorThrows", "boldThrows"}

AwcInit ==
  /\ \E key \in BOOLEAN, issues \in AnalysisIssues :
       awc = [GEMINI_API_KEY |-> key, issues |-> issues, idx |-> 0,
              highlighted |-> 0, nativeCommentsAdded |-> 0,
              processedIssues |-> <<>>, highlights |-> <<>>, markers |-> <<>>,
              comments |-> <<>>, sleeps |-> 0, backups |-> <<>>,
              formatted |-> <<>>, backupCalls |-> 0,
              commentsAdded |-> 0,
              result |-> [success |-> FALSE, message |-> "pending"],
              pc |-> "start"]
  /\ ct = Idle
  /\ aic = Idle
  /\ chg = Idle
  /\ pine = Idle
  /\ rep = Idle
  /\ post = Idle
  /\ gc = Idle
  /\ ext = Idle
  /\ chat = Idle
  /\ chart = Idle
  /\ sa = Idle
  /\ per = Idle

\* lines 1536-1539 and 1577-1585: the failure results
AnalysisFailed(a, text) ==
  [a EXCEPT !.result = [success |-> FALSE, message |-> text], !.pc = "returned"]

\* lines 1535-1554 and 1441-1460: without an API key the handler returns at
\* once; opening the document, the lookups and the analysis can fail, which
\* reviewDocumentWithHighlighting turns into success: false
AwcAnalyze ==
  /\ awc.pc = "start"
  /\ IF ~awc.GEMINI_API_KEY
     THEN awc' = AnalysisFailed(awc, "GEMINI_API_KEY not configured")
     ELSE \E analysed \in BOOLEAN :
            IF analysed THEN awc' = [awc EXCEPT !.pc = "comments"]
            ELSE awc' = AnalysisFailed(awc, "Analysis failed")
  /\ UNCHANGED exceptAwc

\* lines 1249-1258 and 1359-1362: doc.getBody() or getText() failing ends
\* addCommentsWithBackup with 0
AwcBegin ==
  /\ awc.pc = "comments"
  /\ \E bodyOk \in BOOLEAN :
       IF bodyOk THEN awc' = [awc EXCEPT !.idx = 1, !.pc = "issues"]
       ELSE awc' = [awc EXCEPT !.commentsAdded = 0, !.pc = "return"]
  /\ UNCHANGED exceptAwc

\* lines 1268-1273: body.findText(searchText) gives a range exactly for a
\* text that occurs in the document; without one the callback returns
FoundAlways(kind) == kind # "notext"

Found(kind) == kind = "present"

\* lines 1261-1345: one issue.  issue.text.trim() throws without a text; a
\* text that is not found ends the callback (1270-1273); a failing highlight
\* leaves by the catch of line 1342; a failing marker is caught on its own
\* (1295); reading the element's text for the comment position can throw
\* after highlighted++ (1302); the native comment succeeds or not
AwcIssue ==
  /\ awc.pc = "issues"
  /\ awc.idx <= Len(awc.issues)
  /\ \E highlight \in HighlightOutcomes, markerOk \in BOOLEAN,
        positionOk \in BOOLEAN, nativeOk \in BOOLEAN :
       IF ~Found(awc.issues[awc.idx]) \/ highlight = "colorThrows"
       THEN awc' = [awc EXCEPT !.idx = @ + 1]
       ELSE IF highlight = "boldThrows"
       THEN awc' = [awc EXCEPT !.highlights = Append(@, awc.idx),
                               !.idx = @ + 1]
       ELSE IF ~positionOk
       THEN awc' = [awc EXCEPT
                      !.highlights = Append(@, awc.idx),
                      !.formatted = Append(@, awc.idx),
                      !.markers = IF markerOk THEN Append(@, awc.idx) ELSE @,
                      !.highlighted = @ + 1,
                      !.idx = @ + 1]
       ELSE awc' = [awc EXCEPT
                      !.highlights = Append(@, awc.idx),
                      !.formatted = Append(@, awc.idx),
                      !.markers = IF markerOk THEN Append(@, awc.idx) ELSE @,
                      !.highlighted = @ + 1,
                      !.comments = IF nativeOk THEN Append(@, awc.idx) ELSE @,
                      !.nativeCommentsAdded = IF nativeOk THEN @ + 1 ELSE @,
                      !.processedIssues = Append(@, awc.idx),
                      !.sleeps = @ + 1,
                      !.idx = @ + 1]
  /\ UNCHANGED exceptAwc

\* line 1352: the condition of the backup section
BackupNeededAnyProcessed(a) == Len(a.processedIssues) > 0

BackupNeeded(a) ==
  /\ Len(a.processedIssues) > 0
  /\ a.nativeCommentsAdded < Len(a.processedIssues)

\* lines 1351-1357: the backup section, then return highlighted;
\* addBackupSection catches its own errors (1428-1430)
AwcBackup ==
  /\ awc.pc = "issues"
  /\ awc.idx > Len(awc.issues)
  /\ IF BackupNeeded(awc)
     THEN \E appended \in BOOLEAN :
            awc' = [awc EXCEPT
                      !.backupCalls = @ + 1,
                      !.backups = IF appended THEN Append(@, awc.processedIssues)
                                  ELSE @,
                      !.commentsAdded = awc.highlighted,
                      !.pc = "return"]
     ELSE awc' = [awc EXCEPT !.commentsAdded = awc.highlighted, !.pc = "return"]
  /\ UNCHANGED exceptAwc

\* lines 1464-1469 and 1554-1575: success with commentsAdded, reported as
\* issuesFound and in the 'Issues Found' line of the message
AwcReturn ==
  /\ awc.pc = "return"
  /\ awc' = [awc EXCEPT
               !.result = [success |-> TRUE, message |-> "Analysis Complete",
                           issuesInMessage |-> awc.commentsAdded,
                           issuesFound |-> awc.commentsAdded],
               !.pc = "returned"]
  /\ UNCHANGED exceptAwc

AwcNext ==
  \/ AwcAnalyze
  \/ AwcBegin
  \/ AwcIssue
  \/ AwcBackup
  \/ AwcReturn

SpecAwc == AwcInit /\ [][AwcNext]_vars

\* the run of addCommentsWithBackup is over
CommentsDone ==
  awc.pc = "return" \/ (awc.pc = "returned" /\ awc.result.success)

\* C20: the issuesFound value and the 'Issues Found' count of a successful
\* handleAnalyzeWithComments are the number of issues the analysis found,
\* the length of the analysis issue list.
C20_IssuesFoundIsAnalysisCount ==
  (awc.pc = "returned" /\ awc.result.success) =>
    /\ awc.result.issuesFound = Len(awc.issues)
    /\ awc.result.issuesInMessage = Len(awc.issues)

Numbers(seq) == {seq[i] : i \in 1..Len(seq)}

\* C22: for every issue that addCommentsWithBackup highlights, the marker,
\* the native comment and the backup-section entry carry the issue's 1-based
\* position in the analysis issue list, and every backup-section entry
\* numbered k has a marker [k] present in the document.
C22_EntriesHaveMarkers ==
  /\ Numbers(awc.markers) \cup Numbers(awc.comments)
       \cup Numbers(awc.processedIssues) \subseteq Numbers(awc.formatted)
  /\ \A k \in Numbers(awc.formatted) : k \in 1..awc.idx /\ Found(awc.issues[k])
  /\ \A i \in 1..Len(awc.backups) :
       Numbers(awc.backups[i]) \subseteq Numbers(awc.markers)

ScheduledHandler == "runScheduledFocusedReport"

\* another function of the project that a trigger can belong to (line 1140)
OtherHandler == "runWeeklyReport"

\* the triggers the project can hold before the first call
InstalledTriggers ==
  {[id |-> 1, handler |-> ScheduledHandler, source |-> "CLOCK", everyDays |-> 7],
   [id |-> 2, handler |-> ScheduledHandler, source |-> "CLOCK", everyDays |-> 1],
   [id |-> 3, handler |-> OtherHandler, source |-> "CLOCK", everyDays |-> 7]}

\* the arguments of a call: frequencyDays and reportDays
Frequencies == {1, 7}

ReportDayChoices == {7, 30}

\* Number.prototype.toString() of the arguments (lines 1123-1124)
NumberToString(n) ==
  CASE n = 1 -> "1" [] n = 7 -> "7" [] n = 30 -> "30" [] OTHER -> "NaN"

SetupInit ==
  /\ \E installed \in SUBSET InstalledTriggers :
       sa = [triggers |-> installed, before |-> installed,
             nextId |-> Cardinality(InstalledTriggers) + 1,
             properties |-> [SCHEDULED_REPORT_DAYS |-> "",
                             SCHEDULED_FREQUENCY |-> ""],
             frequencyDays |-> 7, reportDays |-> 30,
             listed |-> {}, created |-> 0, calls |-> 0, pc |-> "ready"]
  /\ ct = Idle
  /\ aic = Idle
  /\ chg = Idle
  /\ pine = Idle
  /\ rep = Idle
  /\ post = Idle
  /\ gc = Idle
  /\ ext = Idle
  /\ chat = Idle
  /\ chart = Idle
  /\ awc = Idle
  /\ per = Idle

\* lines 1106-1108: the call and ScriptApp.getProjectTriggers()
SetupCall ==
  /\ sa.pc = "ready"
  /\ sa.calls < MaxSetupCalls
  /\ \E frequencyDays \in Frequencies, reportDays \in ReportDayChoices :
       sa' = [sa EXCEPT !.frequencyDays = frequencyDays,
                        !.reportDays = reportDays,
                        !.listed = sa.triggers,
                        !.pc = "delete"]
  /\ UNCHANGED exceptSa

\* line 1110: the triggers the loop deletes
DeletesNone(trigger) == FALSE

Deletes(trigger) == trigger.handler = ScheduledHandler

\* lines 1109-1113: the loop over the listed triggers
SetupDelete ==
  /\ sa.pc = "delete"
  /\ sa' = [sa EXCEPT
              !.triggers = @ \ {t \in sa.listed : Deletes(t)},
              !.pc = "create"]
  /\ UNCHANGED exceptSa

\* lines 1116-1120: the new time-based trigger
SetupCreate ==
  /\ sa.pc = "create"
  /\ sa' = [sa EXCEPT
              !.triggers = @ \cup {[id |-> sa.nextId,
                                    handler |-> ScheduledHandler,
                                    source |-> "CLOCK",
                                    everyDays |-> sa.frequencyDays]},
              !.created = sa.nextId,
              !.nextId = @ + 1,
              !.pc = "properties"]
  /\ UNCHANGED exceptSa

\* lines 1122-1128: the script properties, and the return
SetupProperties ==
  /\ sa.pc = "properties"
  /\ sa' = [sa EXCEPT
              !.properties = [SCHEDULED_REPORT_DAYS |->
                                NumberToString(sa.reportDays),
                              SCHEDULED_FREQUENCY |->
                                NumberToString(sa.frequencyDays)],
              !.calls = @ + 1,
              !.pc = "ready"]
  /\ UNCHANGED exceptSa

SetupNext ==
  \/ SetupCall
  \/ SetupDelete
  \/ SetupCreate
  \/ SetupProperties

SpecSetup == SetupInit /\ [][SetupNext]_vars

\* the triggers of the scheduled handler, and those of the other handlers
ScheduledTriggers(triggers) == {t \in triggers : t.handler = ScheduledHandler}

OtherTriggers(triggers) == triggers \ ScheduledTriggers(triggers)

ClockChangeDay == 3 * MaxReportDays + 1

\* the script's time zone: UTC, or the zone of the manifest of line 52 in
\* the autumn (clock set back) and in the spring (clock set forward)
TimeZones ==
  {[name |-> "UTC", standard |-> 0, change |-> "none"],
   [name |-> "America/New_York", standard |-> 0 - 5, change |-> "back"],
   [name |-> "America/New_York", standard |-> 0 - 5, change |-> "forward"]}

\* hours from UTC of the zone on a local day
UtcOffset(zone, day) ==
  CASE zone.change = "back" ->
         IF day < ClockChangeDay THEN zone.standard + 1 ELSE zone.standard
    [] zone.change = "forward" ->
         IF day >= ClockChangeDay THEN zone.standard + 1 ELSE zone.standard
    [] OTHER -> zone.standard

\* the days and the hours of the day at which the report is started
RunDays == (ClockChangeDay - 1)..(ClockChangeDay + 2 * MaxReportDays + 1)

RunHours == {0, 9, 19, 23}

\* date.setDate(date.getDate() + n) on a copy: the day moves, the local time
\* of day stays
AddDays(date, n) == [date EXCEPT !.day = @ + n]

\* Utilities.formatDate(date, 'UTC', 'yyyy-MM-dd'): the UTC day of the instant
FormatUtcDay(zone, date) ==
  (date.day * 24 + date.hour - UtcOffset(zone, date.day)) \div 24

PeriodInit ==
  /\ \E days \in 1..MaxReportDays, day \in RunDays, hour \in RunHours,
        zone \in TimeZones :
       per = [days |-> days, zone |-> zone,
              now |-> [day |-> day, hour |-> hour],
              currentStartDate |-> [day |-> 0, hour |-> 0],
              currentEndDate |-> [day |-> 0, hour |-> 0],
              previousStartDate |-> [day |-> 0, hour |-> 0],
              previousEndDate |-> [day |-> 0, hour |-> 0],
              currentPeriod |-> [start |-> 0, end |-> 0],
              previousPeriod |-> [start |-> 0, end |-> 0],
              pc |-> "start"]
  /\ ct = Idle
  /\ aic = Idle
  /\ chg = Idle
  /\ pine = Idle
  /\ rep = Idle
  /\ post = Idle
  /\ gc = Idle
  /\ ext = Idle
  /\ chat = Idle
  /\ chart = Idle
  /\ awc = Idle
  /\ sa = Idle

\* lines 105-113: the four dates
PeriodDates ==
  /\ per.pc = "start"
  /\ LET currentEndDate == AddDays(per.now, 0 - 1)
         currentStartDate == AddDays(currentEndDate, 0 - per.days + 1)
         previousEndDate == AddDays(currentStartDate, 0 - 1)
         previousStartDate == AddDays(previousEndDate, 0 - per.days + 1)
     IN per' = [per EXCEPT !.currentEndDate = currentEndDate,
                           !.currentStartDate = currentStartDate,
                           !.previousEndDate = previousEndDate,
                           !.previousStartDate = previousStartDate,
                           !.pc = "dates"]
  /\ UNCHANGED exceptPer

\* lines 115-123: the two periods the queries are made with
PeriodFormat ==
  /\ per.pc = "dates"
  /\ per' = [per EXCEPT
               !.currentPeriod =
                  [start |-> FormatUtcDay(per.zone, per.currentStartDate),
                   end |-> FormatUtcDay(per.zone, per.currentEndDate)],
               !.previousPeriod =
                  [start |-> FormatUtcDay(per.zone, per.previousStartDate),
                   end |-> FormatUtcDay(per.zone, per.previousEndDate)],
               !.pc = "formatted"]
  /\ UNCHANGED exceptPer

PeriodNext ==
  \/ PeriodDates
  \/ PeriodFormat

SpecPeriods == PeriodInit /\ [][PeriodNext]_vars

\* C25: for every days >= 1 the current period is exactly `days` consecutive
\* days ending yesterday and the previous period is exactly `days`
\* consecutive days ending on the day before the current period starts: the
\* periods are adjacent, equally long and do not overlap.
C25_AdjacentEqualPeriods ==
  per.pc = "formatted" =>
    /\ per.currentPeriod.end = FormatUtcDay(per.zone, per.now) - 1
    /\ per.currentPeriod.end - per.currentPeriod.start + 1 = per.days
    /\ per.previousPeriod.end - per.previousPeriod.start + 1 = per.days
    /\ per.previousPeriod.end + 1 = per.currentPeriod.start

====
